---- MODULE Spec2Model ----
(***************************************************************************)
(* State-machine model of backpack::BackpackWebSocketClient                *)
(* (src/src/websocket_client.cpp) and of the wire-format helpers of        *)
(* src/include/backpack/types.hpp.                                         *)
(*                                                                         *)
(* Text is modelled as a sequence of tokens: a token is a maximal run of   *)
(* characters without '.', '_', '-' or ':', and each of those four         *)
(* characters is a token of its own.  "candle.1m" is <<"candle",".","1m">> *)
(* and "SOL-USDC" is <<"SOL","-","USDC">>, so std::replace, find('.') and  *)
(* substr act on tokens exactly as they act on the characters.             *)
(***************************************************************************)
EXTENDS Integers, Sequences, FiniteSets, TLC

(***************************************************************************)
(* Bounds of the model.                                                    *)
(***************************************************************************)
\* frames send_message may accept in one run of the lifecycle model
MaxFrames == 2
\* polls of the wait loops of connect() and authenticate() (50 in the code)
PollLimit == 2
\* entries the dispatch table may hold in the dispatch model
MaxCallbacks == 2

(***************************************************************************)
(* types.hpp: Channel, channel_to_string, string_to_channel                *)
(***************************************************************************)
Channel ==
    { "TICKER", "TRADES", "CANDLES_1M", "CANDLES_5M", "CANDLES_15M",
      "CANDLES_1H", "CANDLES_4H", "CANDLES_1D", "DEPTH", "DEPTH_SNAPSHOT",
      "USER_ORDERS", "USER_TRADES", "USER_POSITIONS", "USER_BALANCES",
      "ORDERS", "POSITIONS", "BALANCES" }

\* std::nullopt of std::optional<Channel>
NoChannel == "nullopt"

\* a variant of channel_to_string that names USER_TRADES "trades"
channel_to_string_short_trades(channel) ==
    CASE channel = "TICKER"         -> <<"ticker">>
      [] channel = "TRADES"         -> <<"trades">>
      [] channel = "CANDLES_1M"     -> <<"candle", ".", "1m">>
      [] channel = "CANDLES_5M"     -> <<"candle", ".", "5m">>
      [] channel = "CANDLES_15M"    -> <<"candle", ".", "15m">>
      [] channel = "CANDLES_1H"     -> <<"candle", ".", "1h">>
      [] channel = "CANDLES_4H"     -> <<"candle", ".", "4h">>
      [] channel = "CANDLES_1D"     -> <<"candle", ".", "1d">>
      [] channel = "DEPTH"          -> <<"depth">>
      [] channel = "DEPTH_SNAPSHOT" -> <<"depth">>
      [] channel = "USER_ORDERS"    -> <<"orders">>
      [] channel = "USER_TRADES"    -> <<"trades">>
      [] channel = "USER_POSITIONS" -> <<"positions">>
      [] channel = "USER_BALANCES"  -> <<"balances">>
      [] channel = "ORDERS"         -> <<"orders">>
      [] channel = "POSITIONS"      -> <<"positions">>
      [] channel = "BALANCES"       -> <<"balances">>

channel_to_string(channel) ==
    CASE channel = "TICKER"         -> <<"ticker">>
      [] channel = "TRADES"         -> <<"trades">>
      [] channel = "CANDLES_1M"     -> <<"candle", ".", "1m">>
      [] channel = "CANDLES_5M"     -> <<"candle", ".", "5m">>
      [] channel = "CANDLES_15M"    -> <<"candle", ".", "15m">>
      [] channel = "CANDLES_1H"     -> <<"candle", ".", "1h">>
      [] channel = "CANDLES_4H"     -> <<"candle", ".", "4h">>
      [] channel = "CANDLES_1D"     -> <<"candle", ".", "1d">>
      [] channel = "DEPTH"          -> <<"depth">>
      [] channel = "DEPTH_SNAPSHOT" -> <<"depth">>
      [] channel = "USER_ORDERS"    -> <<"orders">>
      [] channel = "USER_TRADES"    -> <<"user", ".", "trades">>
      [] channel = "USER_POSITIONS" -> <<"positions">>
      [] channel = "USER_BALANCES"  -> <<"balances">>
      [] channel = "ORDERS"         -> <<"orders">>
      [] channel = "POSITIONS"      -> <<"positions">>
      [] channel = "BALANCES"       -> <<"balances">>

\* a variant of string_to_channel that takes an unknown name for the
\* ticker channel instead of returning std::nullopt
string_to_channel_or_ticker(str) ==
    IF str = <<"trades">> THEN "TRADES"
    ELSE IF str = <<"depth">> THEN "DEPTH"
    ELSE IF str = <<"orders">> THEN "USER_ORDERS"
    ELSE IF str = <<"positions">> THEN "USER_POSITIONS"
    ELSE IF str = <<"balances">> THEN "USER_BALANCES"
    ELSE "TICKER"

\* the if-chain of string_to_channel, first match wins
string_to_channel(str) ==
    IF str = <<"ticker">> THEN "TICKER"
    ELSE IF str = <<"trades">> THEN "TRADES"
    ELSE IF str = <<"candle", ".", "1m">> THEN "CANDLES_1M"
    ELSE IF str = <<"candle", ".", "5m">> THEN "CANDLES_5M"
    ELSE IF str = <<"candle", ".", "15m">> THEN "CANDLES_15M"
    ELSE IF str = <<"candle", ".", "1h">> THEN "CANDLES_1H"
    ELSE IF str = <<"candle", ".", "4h">> THEN "CANDLES_4H"
    ELSE IF str = <<"candle", ".", "1d">> THEN "CANDLES_1D"
    ELSE IF str = <<"depth">> THEN "DEPTH"
    ELSE IF str = <<"orders">> THEN "USER_ORDERS"
    ELSE IF str = <<"trades">> THEN "USER_TRADES"
    ELSE IF str = <<"positions">> THEN "USER_POSITIONS"
    ELSE IF str = <<"balances">> THEN "USER_BALANCES"
    ELSE NoChannel

(***************************************************************************)
(* Text helpers: std::replace, std::string::find                           *)
(***************************************************************************)
\* a variant of Replace that leaves the text as it is
Unreplaced(str, old, new) == str

\* std::replace(begin, end, old, new): every occurrence
Replace(str, old, new) ==
    [i \in 1..Len(str) |-> IF str[i] = old THEN new ELSE str[i]]

\* std::string::find(ch): index of the first occurrence, 0 for npos
Find(str, ch) ==
    IF \E i \in 1..Len(str) : str[i] = ch
    THEN CHOOSE i \in 1..Len(str) :
            /\ str[i] = ch
            /\ \A j \in 1..(i - 1) : str[j] # ch
    ELSE 0

(***************************************************************************)
(* types.hpp: SubscriptionRequest / UnsubscriptionRequest / Credentials    *)
(***************************************************************************)
\* the stream name both to_json() build: channel name, then "." and the
\* symbol with '-' replaced by '_' when the symbol is not empty
StreamName(channel, symbol) ==
    LET formatted_symbol == Replace(symbol, "-", "_")
    IN  IF formatted_symbol # <<>>
        THEN channel_to_string(channel) \o <<".">> \o formatted_symbol
        ELSE channel_to_string(channel)

SubscriptionRequest_to_json(channel, symbol) ==
    [method |-> "SUBSCRIBE", params |-> <<StreamName(channel, symbol)>>]

UnsubscriptionRequest_to_json(channel, symbol) ==
    [method |-> "UNSUBSCRIBE", params |-> <<StreamName(channel, symbol)>>]

\* a variant of is_valid that looks at the key only
is_valid_key_only(creds) == creds.api_key # ""

\* Credentials::is_valid: both strings non-empty ("" is the empty string)
is_valid(creds) == creds.api_key # "" /\ creds.api_secret # ""

\* the validity window generate_auth_payload puts in the frame
AuthWindow == 5000

\* get_current_timestamp_ms(): the reading of the clock
get_current_timestamp_ms == "now"

\* generate_auth_payload: the key travels in the frame, the secret only
\* through the signature computed from it
generate_signature(api_secret) == <<"hmac", api_secret>>

\* a variant of generate_auth_payload that also puts the secret in the
\* frame
generate_auth_payload_with_secret(api_key, api_secret) ==
    [type |-> "auth", key |-> api_key, secret |-> api_secret,
     timestamp |-> get_current_timestamp_ms, window |-> AuthWindow,
     signature |-> generate_signature(api_secret)]

generate_auth_payload(api_key, api_secret) ==
    [type |-> "auth", key |-> api_key,
     timestamp |-> get_current_timestamp_ms, window |-> AuthWindow,
     signature |-> generate_signature(api_secret)]

\* BackpackWebSocketClient::generate_signature(message, secret): the
\* HMAC-SHA256 of the message under the secret, in hexadecimal
HMAC(message, secret) == <<"hmac", message, secret>>

\* connect(), lines 75-92: the headers appended to the handshake when
\* the credentials are valid; none otherwise
connect_headers(credentials) ==
    IF is_valid(credentials)
    THEN ("X-Timestamp" :> get_current_timestamp_ms)
         @@ ("X-Window" :> "5000")
         @@ ("X-API-Key" :> credentials.api_key)
         @@ ("X-Signature" :>
                HMAC(<<get_current_timestamp_ms, "GET/ws", "5000">>,
                     credentials.api_secret))
    ELSE <<>>

\* the frame of ping()
PingFrame == [method |-> "PING"]

\* channels for which subscribe() sets auth_required
AuthChannels ==
    { "USER_BALANCES", "USER_ORDERS", "USER_POSITIONS", "USER_TRADES" }

\* get_callback_key: channel name, then ":" and the symbol when not empty
get_callback_key(channel, symbol) ==
    IF symbol # <<>>
    THEN channel_to_string(channel) \o <<":">> \o symbol
    ELSE channel_to_string(channel)

(***************************************************************************)
(* Inbound text.  A JSON object is a record holding exactly the members    *)
(* the object contains, so contains(k) is k \in DOMAIN; text json::parse   *)
(* rejects is a record with the single field `text`.                       *)
(***************************************************************************)
Garbage == [text |-> "not json"]
\* rxMsg before any payload arrived
NoMsg == [text |-> ""]

\* json::parse succeeds
Parses(msg) == "text" \notin DOMAIN msg
contains(msg, member) == member \in DOMAIN msg

AuthOk == [type |-> "auth", success |-> TRUE]
AuthFail == [type |-> "auth", success |-> FALSE, message |-> "denied"]
\* {"stream": <stream>, "data": <data>}
DataFrame(stream, data) == [stream |-> stream, data |-> data]

\* an empty std::function
NoCallback == "none"
\* consumers that throw a std::exception when invoked
Throwing == {"bad"}
\* consumers that call register_general_callback on the same client when
\* invoked
Reentrant == {"again"}

(***************************************************************************)
(* State                                                                   *)
(***************************************************************************)
VARIABLES
    credentials_,       \* Credentials: [api_key, api_secret]
    connected_,         \* std::atomic<bool>
    authenticated_,     \* std::atomic<bool>
    running_,           \* std::atomic<bool>
    callbacks_,         \* std::map<std::string, MessageCallback>
    general_callback_,  \* MessageCallback
    message_queue_,     \* std::queue<std::string>
    mutex_,             \* owner of mutex_: "free" or a thread
    client_thread_,     \* TRUE while client_thread_ is joinable
    send_thread_,       \* TRUE while send_thread_ is joinable
    conn,               \* the connection connection_handle_ names
    reader,             \* position of the thread running run_client
    rxMsg,              \* the payload on_message is working on (or the last)
    writer,             \* position of the thread in process_message_queue
    message,            \* local `message` of process_message_queue
    pc,                 \* position of the calling thread
    call,               \* the call the calling thread is in
    polls,              \* loop counter i of the wait loops
    ret,                \* the last connect, disconnect, authenticate,
                        \* subscribe, unsubscribe or ping that returned
    pushed,             \* every frame send_message pushed, in push order
    written,            \* every frame handed to client_.send, in order
    invoked,            \* consumers invoked for rxMsg, in order
    caught,             \* an exception was caught while handling rxMsg
    ackSeen,            \* on_message set authenticated_ during this call
    crashed,            \* std::terminate was called
    setter,             \* a second thread inside set_credentials, or none
    stale,              \* how many frames had been pushed when a
                        \* disconnect() that closed the connection last
                        \* returned
    \* the Beast-based WebSocketClient and the BackpackClient that owns it
    m_connected,        \* WebSocketClient::m_connected
    m_stream,           \* m_ws: "unconnected", "open" or "lost"
    m_read,             \* the async_read outstanding on m_ws, if any
    m_open_handler,     \* std::function: "none", "user" or "client"
    m_close_handler,
    m_message_handler,
    m_fail_handler,
    handler_calls,      \* every handler invocation, in order
    client_pc,          \* position of the thread in BackpackClient::connect
    client_connected_,  \* BackpackClient::connected_
    client_authenticated_,  \* BackpackClient::authenticated_
    client_credentials, \* BackpackClient::api_key_ and api_secret_
    message_handlers_,  \* BackpackClient::message_handlers_, its keys
    beast_written,      \* every message m_ws.write accepted, in order
    client_ret,         \* what the last call on BackpackClient returned
    \* the retrying WebSocketClient
    m_ws,               \* m_ws.getReadyState(): "Closed" or "Open"
    ws_connection,      \* how many connections m_ws has opened
    m_message_queue,    \* std::queue<std::string>
    m_params,           \* [uri, api_key, api_secret]: m_uri, m_api_key,
                        \* m_api_secret
    m_running,          \* bool
    send_pc,            \* position of the thread in send()
    sending,            \* parameter `message` of send_with_retry
    attempt,            \* loop variable of send_with_retry
    writes,             \* calls of m_ws.send made by this send()
    slept,              \* the delays of this send(), in ms
    send_result,        \* how the last connect() or send() ended
    ws_written,         \* every message m_ws.send accepted, in order
    \* the conversions of types.hpp, applied on their own
    fn_in,              \* the arguments
    fn_out              \* the results, once the conversion was applied

vars ==
    << credentials_, connected_, authenticated_, running_, callbacks_,
       general_callback_, message_queue_, mutex_, client_thread_,
       send_thread_, conn, reader, rxMsg, writer, message, pc, call, polls,
       ret, pushed, written, invoked, caught, ackSeen, crashed,
       m_connected, m_stream, m_read, m_open_handler, m_close_handler,
       m_message_handler, m_fail_handler, handler_calls, client_pc,
       client_connected_, client_authenticated_,
       m_ws, ws_connection, m_message_queue, m_params, m_running, send_pc,
       sending, attempt, writes, slept, send_result, ws_written,
       fn_in, fn_out, client_credentials, message_handlers_,
       beast_written, client_ret, setter, stale >>

\* groups of variables, for UNCHANGED
clientVars == << credentials_, callbacks_, general_callback_, mutex_ >>
flagVars == << connected_, authenticated_, running_ >>
threadVars == << client_thread_, send_thread_ >>
readerVars == << conn, reader, rxMsg, invoked, caught >>
writerVars == << writer, message, written >>
callerVars == << pc, call, polls, ret >>
queueVars == << message_queue_, pushed >>
handlerVars ==
    << m_open_handler, m_close_handler, m_message_handler, m_fail_handler >>
\* what the calls on BackpackClient other than connect() read and write
apiVars ==
    << client_credentials, message_handlers_, beast_written, client_ret >>
beastVars ==
    << m_connected, m_stream, m_read, handlerVars, handler_calls, client_pc,
       client_connected_, client_authenticated_, apiVars >>
\* the state of the classes other than BackpackWebSocketClient
sendVars == << send_pc, sending, attempt, writes, slept >>
retryVars ==
    << m_ws, ws_connection, m_message_queue, m_params, m_running, sendVars,
       send_result, ws_written >>
convVars == << fn_in, fn_out >>
\* the second caller of set_credentials and the record of disconnect()
sideVars == << setter, stale >>
otherClients == << beastVars, retryVars, convVars, sideVars >>
\* the state of BackpackWebSocketClient
socketClientVars ==
    << clientVars, flagVars, threadVars, readerVars, writerVars, callerVars,
       queueVars, ackSeen, crashed >>
\* what the actions of the other client classes leave alone
socketClient == << socketClientVars, convVars, sideVars >>

\* WebSocketClient() and BackpackClient(): no handler set, flags false,
\* nothing read yet
BeastInit ==
    /\ m_connected = FALSE
    /\ m_stream = "unconnected"
    /\ m_read = "none"
    /\ m_open_handler = "none"
    /\ m_close_handler = "none"
    /\ m_message_handler = "none"
    /\ m_fail_handler = "none"
    /\ handler_calls = <<>>
    /\ client_pc = "idle"
    /\ client_connected_ = FALSE
    /\ client_authenticated_ = FALSE
    /\ client_credentials = [api_key |-> "", api_secret |-> ""]
    /\ message_handlers_ = {}
    /\ beast_written = <<>>
    /\ client_ret = [call |-> "none", val |-> FALSE]

NoParams == [uri |-> "", api_key |-> "", api_secret |-> ""]
NoResult == [kind |-> "none", val |-> FALSE, what |-> ""]

\* WebSocketClient() of the retrying client: m_running(false), nothing
\* stored, not connected
RetryInit ==
    /\ m_ws = "Closed"
    /\ ws_connection = 0
    /\ m_message_queue = <<>>
    /\ m_params = NoParams
    /\ m_running = FALSE
    /\ send_pc = "idle"
    /\ sending = ""
    /\ attempt = 0
    /\ writes = 0
    /\ slept = <<>>
    /\ send_result = NoResult
    /\ ws_written = <<>>

\* no conversion asked for
NoIn == [op |-> "none"]
NoOut == [op |-> "none"]

ConvIdle ==
    /\ fn_in = NoIn
    /\ fn_out = NoOut

\* no thread is inside set_credentials, disconnect() was never called
NoSetter == [pending |-> FALSE]
SideIdle ==
    /\ setter = NoSetter
    /\ stale = 0

OtherClientsInit == BeastInit /\ RetryInit /\ ConvIdle /\ SideIdle

\* no frame: `message` between two iterations, `frame` before to_json()
NoFrame == [method |-> "none"]

NoCall ==
    [op |-> "none", in |-> "none", channel |-> "none", symbol |-> <<>>,
     frame |-> NoFrame, start |-> 0, auth |-> "none", was_auth |-> FALSE]

NoRet ==
    [op |-> "none", channel |-> "none", symbol |-> <<>>, val |-> FALSE,
     why |-> "none", auth |-> "none", was_auth |-> FALSE, ack |-> FALSE,
     frames |-> <<>>]

\* the constructor: flags false, nothing queued, no thread started
Constructed ==
    /\ credentials_ = [api_key |-> "", api_secret |-> ""]
    /\ connected_ = FALSE
    /\ authenticated_ = FALSE
    /\ running_ = FALSE
    /\ callbacks_ = <<>>
    /\ general_callback_ = NoCallback
    /\ message_queue_ = <<>>
    /\ mutex_ = "free"
    /\ client_thread_ = FALSE
    /\ send_thread_ = FALSE
    /\ conn = "none"
    /\ reader = "off"
    /\ rxMsg = NoMsg
    /\ writer = "off"
    /\ message = NoFrame
    /\ pc = "idle"
    /\ call = NoCall
    /\ polls = 0
    /\ ret = NoRet
    /\ pushed = <<>>
    /\ written = <<>>
    /\ invoked = <<>>
    /\ caught = FALSE
    /\ ackSeen = FALSE
    /\ crashed = FALSE

Init ==
    /\ Constructed
    /\ OtherClientsInit

(***************************************************************************)
(* The calling thread.  One call runs at a time; each action below is one  *)
(* step of a call between two accesses to state other threads share.       *)
(***************************************************************************)
\* the model stops accepting calls that could push past MaxFrames
CanPush(n) == Len(pushed) + n <= MaxFrames

Enter(op, channel, symbol) ==
    [op |-> op, in |-> op, channel |-> channel, symbol |-> symbol,
     frame |-> NoFrame, start |-> Len(pushed), auth |-> "none",
     was_auth |-> authenticated_]

Returned(c, val, why, frames) ==
    [op |-> c.op, channel |-> c.channel, symbol |-> c.symbol, val |-> val,
     why |-> why, auth |-> c.auth, was_auth |-> c.was_auth, ack |-> ackSeen,
     frames |-> frames]

\* the call c returns val; `frames` are the frames it pushed
Return(c, val, why) ==
    /\ pc' = "idle"
    /\ call' = NoCall
    /\ polls' = 0
    /\ ret' = Returned(c, val, why, SubSeq(pushed', c.start + 1, Len(pushed')))

\* the call c is entered and goes on at position `at`
Begin(c, at) ==
    /\ pc' = at
    /\ call' = c
    /\ ret' = NoRet
    /\ UNCHANGED polls

\* bool is_connected() const
is_connected == connected_

\* set_credentials: both fields are written under mutex_
set_credentials(api_key, api_secret) ==
    /\ ~crashed
    /\ UNCHANGED otherClients
    /\ pc = "idle"
    /\ mutex_ = "free"
    /\ credentials_' = [api_key |-> api_key, api_secret |-> api_secret]
    /\ UNCHANGED << callbacks_, general_callback_, mutex_, flagVars,
                    threadVars, readerVars, writerVars, queueVars,
                    callerVars, ackSeen, crashed >>

\* register_callback: callbacks_[get_callback_key(channel, symbol)] = callback
register_callback(channel, symbol, callback) ==
    /\ ~crashed
    /\ UNCHANGED otherClients
    /\ pc = "idle"
    /\ mutex_ = "free"
    /\ Cardinality(DOMAIN callbacks_ \cup {get_callback_key(channel, symbol)})
          <= MaxCallbacks
    /\ callbacks_' =
          [k \in DOMAIN callbacks_ \cup {get_callback_key(channel, symbol)} |->
              IF k = get_callback_key(channel, symbol)
              THEN callback ELSE callbacks_[k]]
    /\ UNCHANGED << credentials_, general_callback_, mutex_, flagVars,
                    threadVars, readerVars, writerVars, queueVars,
                    callerVars, ackSeen, crashed >>

register_general_callback(callback) ==
    /\ ~crashed
    /\ UNCHANGED otherClients
    /\ pc = "idle"
    /\ mutex_ = "free"
    /\ general_callback_' = callback
    /\ UNCHANGED << credentials_, callbacks_, mutex_, flagVars, threadVars,
                    readerVars, writerVars, queueVars, callerVars, ackSeen,
                    crashed >>

(***************************************************************************)
(* connect()                                                               *)
(***************************************************************************)
\* lines 62-95: return true when connected; else get_connection, the signed
\* headers, connection_handle_ = con->get_handle(), client_.connect(con).
\* A handshake still pending on an earlier handle has run into the
\* transport's own handshake timeout by then.
connect ==
    /\ ~crashed
    /\ UNCHANGED otherClients
    /\ pc = "idle"
    /\ UNCHANGED << clientVars, flagVars, threadVars, writerVars, queueVars,
                    reader, rxMsg, invoked, caught, ackSeen, crashed >>
    /\ IF is_connected
       THEN /\ Return(Enter("connect", "none", <<>>), TRUE, "already")
            /\ UNCHANGED conn
       ELSE /\ conn' = "connecting"
            /\ Begin(Enter("connect", "none", <<>>), "connect_start")

\* lines 98-102: if (!running_) { running_ = true; both threads are
\* assigned }.  Assigning to a std::thread that is still joinable calls
\* std::terminate.
connect_start ==
    /\ ~crashed
    /\ UNCHANGED otherClients
    /\ pc = "connect_start"
    /\ pc' = "connect_wait"
    /\ polls' = 0
    /\ UNCHANGED << clientVars, connected_, authenticated_, conn, rxMsg,
                    invoked, caught, message, written, queueVars, call, ret,
                    ackSeen >>
    /\ IF running_
       THEN UNCHANGED << running_, threadVars, reader, writer, crashed >>
       ELSE /\ running_' = TRUE
            /\ IF client_thread_ \/ send_thread_
               THEN /\ crashed' = TRUE
                    /\ UNCHANGED << threadVars, reader, writer >>
               ELSE /\ client_thread_' = TRUE
                    /\ send_thread_' = TRUE
                    /\ reader' = "run"
                    /\ writer' = "loop"
                    /\ UNCHANGED crashed

\* lines 105-112: for (i < 50) { if (connected_) return true; sleep }
\* return connected_
connect_wait ==
    /\ ~crashed
    /\ UNCHANGED otherClients
    /\ pc = "connect_wait"
    /\ UNCHANGED << clientVars, flagVars, threadVars, readerVars, writerVars,
                    queueVars, ackSeen, crashed >>
    /\ IF polls < PollLimit
       THEN IF connected_
            THEN Return(call, TRUE, "connected")
            ELSE /\ polls' = polls + 1
                 /\ UNCHANGED << pc, call, ret >>
       ELSE Return(call, connected_, "timeout")

(***************************************************************************)
(* disconnect()                                                            *)
(***************************************************************************)
\* queue_condition_.notify_one() / notify_all() with queue_mutex_ held: a
\* writer blocked in queue_condition_.wait goes on to test the predicate
\* of the wait; a writer elsewhere is not affected (w is its position)
notify(w) == IF w = "parked" THEN "wait" ELSE w

\* lines 121-133: return when not connected; client_.close(handle);
\* connected_ = false
disconnect ==
    /\ ~crashed
    /\ UNCHANGED otherClients
    /\ pc = "idle"
    /\ UNCHANGED << clientVars, authenticated_, running_, threadVars,
                    writerVars, queueVars, reader, rxMsg, invoked, caught,
                    ackSeen, crashed >>
    /\ IF ~is_connected
       THEN /\ Return(Enter("disconnect", "none", <<>>), TRUE, "not_connected")
            /\ UNCHANGED << connected_, conn >>
       ELSE /\ conn' = IF conn = "open" THEN "closing" ELSE conn
            /\ connected_' = FALSE
            /\ Begin(Enter("disconnect", "none", <<>>), "disconnect_auth")

\* line 134: authenticated_ = false
disconnect_auth ==
    /\ ~crashed
    /\ UNCHANGED otherClients
    /\ pc = "disconnect_auth"
    /\ authenticated_' = FALSE
    /\ pc' = "disconnect_stop"
    /\ UNCHANGED << clientVars, connected_, running_, threadVars, readerVars,
                    writerVars, queueVars, call, polls, ret, ackSeen, crashed >>

\* lines 137-144: if (running_) { running_ = false; notify_all } else return
disconnect_stop ==
    /\ ~crashed
    /\ UNCHANGED << beastVars, retryVars, convVars, setter >>
    /\ pc = "disconnect_stop"
    /\ UNCHANGED << clientVars, connected_, authenticated_, threadVars,
                    readerVars, message, written, queueVars, ackSeen,
                    crashed >>
    /\ IF running_
       THEN /\ running_' = FALSE
            /\ writer' = notify(writer)
            /\ pc' = "disconnect_join_client"
            /\ UNCHANGED << call, polls, ret, stale >>
       ELSE /\ UNCHANGED << running_, writer >>
            /\ Return(call, TRUE, "not_running")
            /\ stale' = Len(pushed)

\* lines 147-149: client_thread_.join() once run_client has returned
disconnect_join_client ==
    /\ ~crashed
    /\ UNCHANGED otherClients
    /\ pc = "disconnect_join_client"
    /\ client_thread_ => reader = "done"
    /\ client_thread_' = FALSE
    /\ pc' = "disconnect_join_send"
    /\ UNCHANGED << clientVars, flagVars, send_thread_, readerVars,
                    writerVars, queueVars, call, polls, ret, ackSeen, crashed >>

\* lines 151-153: send_thread_.join() once process_message_queue has returned
disconnect_join_send ==
    /\ ~crashed
    /\ UNCHANGED << beastVars, retryVars, convVars, setter >>
    /\ pc = "disconnect_join_send"
    /\ send_thread_ => writer = "done"
    /\ send_thread_' = FALSE
    /\ stale' = Len(pushed)
    /\ UNCHANGED << clientVars, flagVars, client_thread_, readerVars,
                    writerVars, queueVars, ackSeen, crashed >>
    /\ Return(call, TRUE, "joined")

(***************************************************************************)
(* send_message and the calls that enqueue                                 *)
(***************************************************************************)
\* message_queue_.push(message)
Enqueue(queue, frame) == Append(queue, frame)

\* a variant of authenticate_return in which subscribe() goes on whatever
\* authenticate() returned
authenticate_return_unchecked(c, val, why) ==
    IF c.op = "subscribe"
    THEN /\ pc' = "subscribe_send"
         /\ call' = [c EXCEPT !.auth = IF val THEN "ok" ELSE why,
                              !.in = "subscribe"]
         /\ polls' = 0
         /\ UNCHANGED ret
    ELSE Return(c, val, why)

\* authenticate() returns val: to its caller when subscribe() called it
\* (line 213), else to the calling thread
authenticate_return(c, val, why) ==
    IF c.op = "subscribe"
    THEN IF val
         THEN /\ pc' = "subscribe_send"
              /\ call' = [c EXCEPT !.auth = "ok", !.in = "subscribe"]
              /\ polls' = 0
              /\ UNCHANGED ret
         ELSE Return([c EXCEPT !.auth = why], FALSE, "auth_failed")
    ELSE Return(c, val, why)

\* lines 166-168: if (!is_connected()) return false
\* set_credentials on a second thread, line 56 and 57: mutex_ is locked and
\* credentials_.api_key assigned
set_credentials_key(api_key, api_secret) ==
    /\ ~crashed
    /\ UNCHANGED << beastVars, retryVars, convVars, stale >>
    /\ setter = NoSetter
    /\ mutex_ = "free"
    /\ mutex_' = "setter"
    /\ setter' = [old |-> credentials_,
                  new |-> [api_key |-> api_key, api_secret |-> api_secret]]
    /\ credentials_' = [credentials_ EXCEPT !.api_key = api_key]
    /\ UNCHANGED << callbacks_, general_callback_, flagVars, threadVars,
                    readerVars, writerVars, queueVars, callerVars, ackSeen,
                    crashed >>

\* line 58: credentials_.api_secret assigned, and the lock_guard releases
\* mutex_
set_credentials_secret ==
    /\ ~crashed
    /\ UNCHANGED << beastVars, retryVars, convVars, stale >>
    /\ setter # NoSetter
    /\ credentials_' = [credentials_ EXCEPT !.api_secret = setter.new.api_secret]
    /\ mutex_' = "free"
    /\ setter' = NoSetter
    /\ UNCHANGED << callbacks_, general_callback_, flagVars, threadVars,
                    readerVars, writerVars, queueVars, callerVars, ackSeen,
                    crashed >>

\* what the reads of credentials_.api_key and credentials_.api_secret made
\* without mutex_ (lines 84-86 and 176-178) can return. With no thread
\* inside set_credentials it is the stored pair. With one inside, the reads
\* race with its two assignments and each returns the field as it was
\* before or as it is after the assignment
Unlocked(creds) ==
    IF setter = NoSetter
    THEN { creds }
    ELSE [api_key : {setter.old.api_key, setter.new.api_key},
          api_secret : {setter.old.api_secret, setter.new.api_secret}]

authenticate_entry(c) ==
    /\ UNCHANGED << clientVars, flagVars, threadVars, readerVars, writerVars,
                    queueVars, crashed >>
    /\ IF ~is_connected
       THEN /\ authenticate_return(c, FALSE, "not_connected")
            /\ UNCHANGED ackSeen
       ELSE /\ Begin([c EXCEPT !.in = "authenticate",
                                  !.was_auth = authenticated_],
                       "authenticate_creds")
            /\ ackSeen' = FALSE

authenticate ==
    /\ ~crashed
    /\ UNCHANGED otherClients
    /\ pc = "idle"
    /\ CanPush(1)
    /\ authenticate_entry(Enter("authenticate", "none", <<>>))

\* lines 170-181: is_valid(), generate_auth_payload, and the is_connected()
\* test of send_message (line 408)
authenticate_creds ==
    /\ ~crashed
    /\ UNCHANGED otherClients
    /\ pc = "authenticate_creds"
    /\ UNCHANGED << clientVars, flagVars, threadVars, readerVars, writerVars,
                    queueVars, ackSeen, crashed >>
    /\ IF ~is_valid(credentials_)
       THEN authenticate_return(call, FALSE, "invalid_credentials")
       ELSE IF ~is_connected
            THEN authenticate_return(call, FALSE, "send_failed")
            ELSE /\ pc' = "send_message"
                 /\ \E seen \in Unlocked(credentials_) :
                       call' = [call EXCEPT !.frame =
                          generate_auth_payload(seen.api_key,
                                                seen.api_secret)]
                 /\ UNCHANGED << polls, ret >>

\* a variant of authenticate_result that reports success at the end of
\* the wait whatever the flag says
authenticate_result_true == TRUE

\* line 191: return authenticated_
authenticate_result == authenticated_

\* lines 184-191: for (i < 50) { if (authenticated_) return true; sleep }
\* return authenticated_
authenticate_wait ==
    /\ ~crashed
    /\ UNCHANGED otherClients
    /\ pc = "authenticate_wait"
    /\ UNCHANGED << clientVars, flagVars, threadVars, readerVars, writerVars,
                    queueVars, ackSeen, crashed >>
    /\ IF polls < PollLimit
       THEN IF authenticated_
            THEN authenticate_return(call, TRUE, "confirmed")
            ELSE /\ polls' = polls + 1
                 /\ UNCHANGED << pc, call, ret >>
       ELSE authenticate_return(call, authenticate_result, "timeout")

\* lines 199-218: not connected: false.  An account channel on a client
\* that is not authenticated calls authenticate().
subscribe(channel, symbol) ==
    /\ ~crashed
    /\ UNCHANGED otherClients
    /\ pc = "idle"
    /\ CanPush(IF channel \in AuthChannels THEN 2 ELSE 1)
    /\ UNCHANGED << clientVars, flagVars, threadVars, readerVars, writerVars,
                    queueVars, ackSeen, crashed >>
    /\ IF ~is_connected
       THEN Return(Enter("subscribe", channel, symbol), FALSE, "not_connected")
       ELSE Begin(Enter("subscribe", channel, symbol),
                  IF channel \in AuthChannels
                  THEN "subscribe_auth" ELSE "subscribe_send")

\* line 213: if (!authenticated_ && !authenticate())
subscribe_auth ==
    /\ ~crashed
    /\ UNCHANGED otherClients
    /\ pc = "subscribe_auth"
    /\ IF authenticated_
       THEN /\ pc' = "subscribe_send"
            /\ call' = [call EXCEPT !.was_auth = TRUE]
            /\ UNCHANGED << clientVars, flagVars, threadVars, readerVars,
                            writerVars, queueVars, polls, ret, ackSeen,
                            crashed >>
       ELSE authenticate_entry(call)

\* lines 220-229 and 408: req.to_json(), then the is_connected() test of
\* send_message
subscribe_send ==
    /\ ~crashed
    /\ UNCHANGED otherClients
    /\ pc = "subscribe_send"
    /\ UNCHANGED << clientVars, flagVars, threadVars, readerVars, writerVars,
                    queueVars, ackSeen, crashed >>
    /\ IF ~is_connected
       THEN Return(call, FALSE, "send_failed")
       ELSE /\ pc' = "send_message"
            /\ call' = [call EXCEPT !.frame =
                  SubscriptionRequest_to_json(call.channel, call.symbol)]
            /\ UNCHANGED << polls, ret >>

\* lines 237-250 and 408: the two is_connected() tests and to_json()
unsubscribe(channel, symbol) ==
    /\ ~crashed
    /\ UNCHANGED otherClients
    /\ pc = "idle"
    /\ CanPush(1)
    /\ UNCHANGED << clientVars, flagVars, threadVars, readerVars, writerVars,
                    queueVars, ackSeen, crashed >>
    /\ IF ~is_connected
       THEN Return(Enter("unsubscribe", channel, symbol), FALSE,
                   "not_connected")
       ELSE Begin([Enter("unsubscribe", channel, symbol) EXCEPT !.frame =
                      UnsubscriptionRequest_to_json(channel, symbol)],
                  "send_message")

\* lines 269-280 and 408
ping ==
    /\ ~crashed
    /\ UNCHANGED otherClients
    /\ pc = "idle"
    /\ CanPush(1)
    /\ UNCHANGED << clientVars, flagVars, threadVars, readerVars, writerVars,
                    queueVars, ackSeen, crashed >>
    /\ IF ~is_connected
       THEN Return(Enter("ping", "none", <<>>), FALSE, "not_connected")
       ELSE Begin([Enter("ping", "none", <<>>) EXCEPT !.frame = PingFrame],
                  "send_message")

\* a variant of send_message that hands the frame to client_.send on the
\* calling thread instead of pushing it
send_message_direct ==
    /\ ~crashed
    /\ UNCHANGED otherClients
    /\ pc = "send_message"
    /\ written' = Append(written, [frame |-> call.frame, ok |-> conn = "open"])
    /\ pushed' = Append(pushed, call.frame)
    /\ UNCHANGED << clientVars, flagVars, threadVars, readerVars, message,
                    writer, message_queue_, ackSeen, crashed >>
    /\ IF call.in = "authenticate"
       THEN /\ pc' = "authenticate_wait"
            /\ polls' = 0
            /\ UNCHANGED << call, ret >>
       ELSE Return(call, TRUE, "ok")

\* lines 416-419: under queue_mutex_, push, notify_one, return true; then
\* the caller goes on: authenticate() to its wait loop, the others return
send_message ==
    /\ ~crashed
    /\ UNCHANGED otherClients
    /\ pc = "send_message"
    /\ message_queue_' = Enqueue(message_queue_, call.frame)
    /\ pushed' = Append(pushed, call.frame)
    /\ writer' = notify(writer)
    /\ UNCHANGED << clientVars, flagVars, threadVars, readerVars, message,
                    written, ackSeen, crashed >>
    /\ IF call.in = "authenticate"
       THEN /\ pc' = "authenticate_wait"
            /\ polls' = 0
            /\ UNCHANGED << call, ret >>
       ELSE Return(call, TRUE, "ok")

(***************************************************************************)
(* The thread of run_client: client_.run() and the handlers it invokes     *)
(***************************************************************************)
\* on_open: connected_ = true
on_open ==
    /\ ~crashed
    /\ UNCHANGED otherClients
    /\ reader = "run"
    /\ conn = "connecting"
    /\ conn' = "open"
    /\ connected_' = TRUE
    /\ UNCHANGED << clientVars, authenticated_, running_, threadVars, reader,
                    rxMsg, invoked, caught, writerVars, queueVars, callerVars,
                    ackSeen, crashed >>

\* on_error (the fail handler), line 357: connected_ = false
on_error ==
    /\ ~crashed
    /\ UNCHANGED otherClients
    /\ reader = "run"
    /\ conn = "connecting"
    /\ conn' = "failed"
    /\ connected_' = FALSE
    /\ reader' = "on_error"
    /\ UNCHANGED << clientVars, authenticated_, running_, threadVars, rxMsg,
                    invoked, caught, writerVars, queueVars, callerVars,
                    ackSeen, crashed >>

\* on_close, line 314: connected_ = false
on_close ==
    /\ ~crashed
    /\ UNCHANGED otherClients
    /\ reader = "run"
    /\ conn \in {"open", "closing"}
    /\ conn' = "closed"
    /\ connected_' = FALSE
    /\ reader' = "on_close"
    /\ UNCHANGED << clientVars, authenticated_, running_, threadVars, rxMsg,
                    invoked, caught, writerVars, queueVars, callerVars,
                    ackSeen, crashed >>

\* a variant of handler_auth_reset without the assignment to authenticated_
handler_keeps_auth ==
    /\ ~crashed
    /\ UNCHANGED otherClients
    /\ reader \in {"on_close", "on_error"}
    /\ reader' = "run"
    /\ UNCHANGED << clientVars, flagVars, threadVars, conn, rxMsg, invoked,
                    caught, writerVars, queueVars, callerVars, ackSeen,
                    crashed >>

\* lines 315 and 358: authenticated_ = false, and the handler returns
handler_auth_reset ==
    /\ ~crashed
    /\ UNCHANGED otherClients
    /\ reader \in {"on_close", "on_error"}
    /\ authenticated_' = FALSE
    /\ reader' = "run"
    /\ UNCHANGED << clientVars, connected_, running_, threadVars, conn, rxMsg,
                    invoked, caught, writerVars, queueVars, callerVars,
                    ackSeen, crashed >>

\* run_client: client_.run() returns when the connection is over and
\* nothing else is pending; then running_ = false
run_client ==
    /\ ~crashed
    /\ UNCHANGED otherClients
    /\ reader = "run"
    /\ conn \in {"closed", "failed"}
    /\ running_' = FALSE
    /\ reader' = "done"
    /\ UNCHANGED << clientVars, connected_, authenticated_, threadVars, conn,
                    rxMsg, invoked, caught, writerVars, queueVars, callerVars,
                    ackSeen, crashed >>

\* a variant of AfterCatch without the catch blocks: the exception leaves
\* the handler and the thread is gone
Uncaught == "terminated"

\* the position of the reading thread after an exception was caught by the
\* catch blocks of on_message (line 345) or handle_message (line 495)
AfterCatch == "run"

\* std::lock_guard<std::mutex> lock(mutex_): the owner of mutex_ once the
\* guarded scope is left, by its end or by an exception (`threw`)
lock_guard(threw) == "free"

\* one invocation of a consumer
Invocation(slot, callback, arg) ==
    [slot |-> slot, callback |-> callback, arg |-> arg]

\* on_message up to the call of handle_message (lines 319-343)
\* lines 259, 265 and 56 reached from inside a consumer: the reader thread
\* locks mutex_, a std::mutex it already owns. The behaviour is undefined;
\* the lock call either never returns or throws std::system_error, which the
\* catch of on_message takes after the lock_guard released mutex_
Relock(log) ==
    /\ invoked' = log
    /\ \/ /\ reader' = "blocked"
          /\ mutex_' = "reader"
          /\ caught' = FALSE
       \/ /\ reader' = AfterCatch
          /\ mutex_' = lock_guard(TRUE)
          /\ caught' = TRUE

on_message(msg) ==
    /\ ~crashed
    /\ UNCHANGED otherClients
    /\ reader = "run"
    /\ conn \in {"open", "closing"}
    /\ rxMsg' = msg
    /\ UNCHANGED << credentials_, callbacks_, general_callback_, connected_,
                    running_, threadVars, conn, writerVars, queueVars,
                    callerVars, crashed >>
    /\ IF ~Parses(msg)
       THEN \* json::parse throws
            /\ invoked' = <<>>
            /\ caught' = TRUE
            /\ reader' = AfterCatch
            /\ UNCHANGED << authenticated_, ackSeen, mutex_ >>
       ELSE IF contains(msg, "type") /\ msg.type = "auth"
       THEN /\ invoked' = <<>>
            /\ caught' = FALSE
            /\ reader' = "run"
            /\ UNCHANGED mutex_
            /\ IF contains(msg, "success") /\ msg.success
               THEN /\ authenticated_' = TRUE
                    /\ ackSeen' = (call.in = "authenticate")
               ELSE UNCHANGED << authenticated_, ackSeen >>
       ELSE /\ mutex_ = "free"
            /\ UNCHANGED << authenticated_, ackSeen >>
            /\ IF general_callback_ = NoCallback
               THEN /\ invoked' = <<>>
                    /\ caught' = FALSE
                    /\ reader' = "handle_message"
                    /\ mutex_' = lock_guard(FALSE)
               ELSE IF general_callback_ \in Reentrant
               THEN Relock(<<Invocation("general", general_callback_, msg)>>)
               ELSE /\ invoked' =
                         <<Invocation("general", general_callback_, msg)>>
                    /\ caught' = (general_callback_ \in Throwing)
                    /\ reader' = IF general_callback_ \in Throwing
                                 THEN AfterCatch ELSE "handle_message"
                    /\ mutex_' = lock_guard(general_callback_ \in Throwing)

\* lines 457-469: split the stream name at the first '.', and replace '_'
\* by '-' in what follows it
ParseStream(stream) ==
    LET dot_pos == Find(stream, ".")
    IN  IF dot_pos # 0
        THEN [channel_str |-> SubSeq(stream, 1, dot_pos - 1),
              symbol |-> Replace(SubSeq(stream, dot_pos + 1, Len(stream)),
                                 "_", "-")]
        ELSE [channel_str |-> stream, symbol |-> <<>>]

\* a variant of Route that tries the channel's key before the exact key
RouteChannelFirst(table, channel, symbol, data) ==
    LET key == get_callback_key(channel, symbol)
        all == get_callback_key(channel, <<>>)
    IN  IF all \in DOMAIN table /\ table[all] # NoCallback
        THEN <<[slot |-> all, callback |-> table[all], arg |-> data]>>
        ELSE IF key \in DOMAIN table /\ table[key] # NoCallback
             THEN <<[slot |-> key, callback |-> table[key], arg |-> data]>>
             ELSE <<>>

\* lines 481-493: the consumer at the exact key, else the one at the
\* channel's key; none is no error
Route(table, channel, symbol, data) ==
    LET key == get_callback_key(channel, symbol)
        all == get_callback_key(channel, <<>>)
    IN  IF key \in DOMAIN table /\ table[key] # NoCallback
        THEN <<Invocation(key, table[key], data)>>
        ELSE IF all \in DOMAIN table /\ table[all] # NoCallback
             THEN <<Invocation(all, table[all], data)>>
             ELSE <<>>

\* lines 443-493: the invocations handle_message makes for msg
Dispatch(table, msg) ==
    IF contains(msg, "error")
    THEN <<>>
    ELSE IF ~contains(msg, "stream") \/ ~contains(msg, "data")
    THEN <<>>
    ELSE LET parsed == ParseStream(msg.stream)
             channel_opt == string_to_channel(parsed.channel_str)
         IN  IF channel_opt = NoChannel
             THEN <<>>
             ELSE Route(table, channel_opt, parsed.symbol, msg.data)

\* handle_message(message)
handle_message ==
    /\ ~crashed
    /\ UNCHANGED otherClients
    /\ reader = "handle_message"
    /\ mutex_ = "free"
    /\ IF \E i \in 1..Len(Dispatch(callbacks_, rxMsg)) :
             Dispatch(callbacks_, rxMsg)[i].callback \in Reentrant
       THEN Relock(invoked \o Dispatch(callbacks_, rxMsg))
       ELSE /\ invoked' = invoked \o Dispatch(callbacks_, rxMsg)
            /\ caught' = (\E i \in 1..Len(Dispatch(callbacks_, rxMsg)) :
                             Dispatch(callbacks_, rxMsg)[i].callback
                                \in Throwing)
            /\ reader' = IF caught' THEN AfterCatch ELSE "run"
            /\ mutex_' = lock_guard(caught')
    /\ UNCHANGED << credentials_, callbacks_, general_callback_, flagVars,
                    threadVars, conn, rxMsg, writerVars, queueVars,
                    callerVars, ackSeen, crashed >>

(***************************************************************************)
(* The thread of process_message_queue                                     *)
(***************************************************************************)
\* a variant of Front that takes the frame pushed last
Back(queue) == queue[Len(queue)]

\* message_queue_.front() and message_queue_.pop()
Front(queue) == Head(queue)
Pop(queue) == Tail(queue)

\* line 372: while (running_)
process_message_queue ==
    /\ ~crashed
    /\ UNCHANGED otherClients
    /\ writer = "loop"
    /\ writer' = IF running_ THEN "wait" ELSE "done"
    /\ UNCHANGED << clientVars, flagVars, threadVars, readerVars, message,
                    written, queueVars, callerVars, ackSeen, crashed >>

\* lines 375-389, with queue_mutex_ held: the predicate of the wait,
\* !running_ || !message_queue_.empty(), is tested; when it is false the
\* thread blocks in queue_condition_.wait; else it leaves when stopped
\* with nothing queued, or takes the front frame
process_message_queue_wait ==
    /\ ~crashed
    /\ UNCHANGED otherClients
    /\ writer = "wait"
    /\ IF running_ /\ message_queue_ = <<>>
       THEN /\ writer' = "parked"
            /\ UNCHANGED << message, message_queue_ >>
       ELSE IF ~running_ /\ message_queue_ = <<>>
       THEN /\ writer' = "done"
            /\ UNCHANGED << message, message_queue_ >>
       ELSE /\ message' = Front(message_queue_)
            /\ message_queue_' = Pop(message_queue_)
            /\ writer' = "send"
    /\ UNCHANGED << clientVars, flagVars, threadVars, readerVars, written,
                    pushed, callerVars, ackSeen, crashed >>

\* a spurious wakeup of queue_condition_.wait: the predicate is tested
\* again
spurious_wakeup ==
    /\ ~crashed
    /\ UNCHANGED otherClients
    /\ writer = "parked"
    /\ writer' = "wait"
    /\ UNCHANGED << clientVars, flagVars, threadVars, readerVars, message,
                    written, queueVars, callerVars, ackSeen, crashed >>

\* lines 391-403: client_.send(connection_handle_, message); an error code
\* (the connection is not open) is logged and the frame is gone
process_message_queue_send ==
    /\ ~crashed
    /\ UNCHANGED otherClients
    /\ writer = "send"
    /\ written' = Append(written, [frame |-> message, ok |-> conn = "open"])
    /\ message' = NoFrame
    /\ writer' = "loop"
    /\ UNCHANGED << clientVars, flagVars, threadVars, readerVars, queueVars,
                    callerVars, ackSeen, crashed >>

(***************************************************************************)
(* The lifecycle model: one calling thread, the reading thread and the     *)
(* writing thread, from the constructor                                    *)
(***************************************************************************)
SOL_USDC == <<"SOL", "-", "USDC">>
ETH_USDC == <<"ETH", "-", "USDC">>

Next ==
    \/ connect
    \/ connect_start
    \/ connect_wait
    \/ disconnect
    \/ disconnect_auth
    \/ disconnect_stop
    \/ disconnect_join_client
    \/ disconnect_join_send
    \/ subscribe("TICKER", SOL_USDC)
    \/ subscribe_send
    \/ unsubscribe("TICKER", SOL_USDC)
    \/ ping
    \/ send_message
    \/ on_open
    \/ on_error
    \/ on_close
    \/ handler_auth_reset
    \/ run_client
    \/ on_message(AuthOk)
    \/ process_message_queue
    \/ process_message_queue_wait
    \/ spurious_wakeup
    \/ process_message_queue_send

Spec == Init /\ [][Next]_vars

(***************************************************************************)
(* The authentication model: a client whose connect() has returned true,   *)
(* or one never connected, with any credentials; authenticate() and        *)
(* subscribe() against a server that acknowledges, refuses or is silent,   *)
(* and a transport that may close                                          *)
(***************************************************************************)
\* the state connect() leaves when it returns true on a new client
Connected ==
    /\ connected_ = TRUE
    /\ authenticated_ = FALSE
    /\ running_ = TRUE
    /\ callbacks_ = <<>>
    /\ general_callback_ = NoCallback
    /\ message_queue_ = <<>>
    /\ mutex_ = "free"
    /\ client_thread_ = TRUE
    /\ send_thread_ = TRUE
    /\ conn = "open"
    /\ reader = "run"
    /\ rxMsg = NoMsg
    /\ writer = "wait"
    /\ message = NoFrame
    /\ pc = "idle"
    /\ call = NoCall
    /\ polls = 0
    /\ ret = NoRet
    /\ pushed = <<>>
    /\ written = <<>>
    /\ invoked = <<>>
    /\ caught = FALSE
    /\ ackSeen = FALSE
    /\ crashed = FALSE
    /\ OtherClientsInit

\* the credentials a caller may have set: none, one field only, both
AuthCredentials ==
    { <<"", "">>, <<"key", "">>, <<"", "secret">>, <<"key", "secret">> }

AuthInit ==
    \/ /\ Init
    \/ /\ Connected
       /\ \E c \in AuthCredentials :
             credentials_ = [api_key |-> c[1], api_secret |-> c[2]]

AuthNext ==
    \/ \E c \in AuthCredentials : set_credentials(c[1], c[2])
    \/ authenticate
    \/ authenticate_creds
    \/ authenticate_wait
    \/ subscribe("USER_ORDERS", <<>>)
    \/ subscribe("TICKER", SOL_USDC)
    \/ subscribe_auth
    \/ subscribe_send
    \/ send_message
    \/ on_message(AuthOk)
    \/ on_message(AuthFail)
    \/ on_close
    \/ handler_auth_reset
    \/ run_client
    \/ process_message_queue
    \/ process_message_queue_wait
    \/ spurious_wakeup
    \/ process_message_queue_send

AuthSpec == AuthInit /\ [][AuthNext]_vars

(***************************************************************************)
(* The dispatch model: a connected client, consumers being registered      *)
(* while payloads arrive                                                   *)
(***************************************************************************)
DispatchChannels ==
    { "TICKER", "CANDLES_1M", "DEPTH" }
\* symbols consumers are registered for
DispatchSymbols == { <<>>, SOL_USDC }
\* consumers: "f" and "g" return, "bad" throws
Consumers == { "f", "bad" }
GeneralConsumers == { "g", "bad" }

\* the payloads of data frames
Payload == "D"

\* the stream names the server sends: what subscribe() asked for, for the
\* registered symbols, and the ticker of one more symbol
DispatchStreams ==
    { StreamName(c, s) : c \in DispatchChannels, s \in DispatchSymbols }
    \cup { StreamName("TICKER", ETH_USDC) }

DispatchInbound ==
    { DataFrame(st, Payload) : st \in DispatchStreams }
    \cup { Garbage,
           AuthOk,
           [error |-> "E"],
           [stream |-> <<"ticker", ".", "SOL", "_", "USDC">>],
           [data |-> Payload],
           DataFrame(<<"kline", ".", "SOL", "_", "USDC">>, Payload) }

DispatchInit ==
    /\ Connected
    /\ credentials_ = [api_key |-> "", api_secret |-> ""]

DispatchNext ==
    \/ \E c \in DispatchChannels, s \in DispatchSymbols, f \in Consumers :
          register_callback(c, s, f)
    \/ \E f \in GeneralConsumers : register_general_callback(f)
    \/ \E m \in DispatchInbound : on_message(m)
    \/ handle_message

DispatchSpec == DispatchInit /\ [][DispatchNext]_vars

(***************************************************************************)
(* The frame model: a connected client without credentials whose caller    *)
(* subscribes and unsubscribes; the frames stay queued                     *)
(***************************************************************************)
\* every channel; of the six candle channels the first and the last
FrameChannels ==
    Channel \ { "CANDLES_5M", "CANDLES_15M", "CANDLES_1H", "CANDLES_4H" }
FrameSymbols == { <<>>, SOL_USDC, <<"A", "-", "B", "-", "C">> }

FrameInit ==
    /\ Connected
    /\ credentials_ = [api_key |-> "", api_secret |-> ""]

FrameNext ==
    \/ \E c \in FrameChannels, s \in FrameSymbols : subscribe(c, s)
    \/ subscribe_auth
    \/ authenticate_creds
    \/ subscribe_send
    \/ \E c \in FrameChannels, s \in FrameSymbols : unsubscribe(c, s)
    \/ send_message

FrameSpec == FrameInit /\ [][FrameNext]_vars

\* the authentication model with a calling thread that keeps running: the
\* sleep_for of the wait loop returns, so the loop takes its next step
AuthLiveSpec == AuthSpec /\ WF_vars(authenticate_wait)

\* the lifecycle model with a reading thread that is scheduled: a handler
\* that was entered returns, and client_.run() returns once the connection
\* is over
LifecycleLiveSpec ==
    Spec /\ WF_vars(handler_auth_reset) /\ WF_vars(run_client)

\* the steps of a call that was entered: the calling thread goes on to the
\* return of the call
CallInProgress ==
    \/ connect_start
    \/ connect_wait
    \/ disconnect_auth
    \/ disconnect_stop
    \/ disconnect_join_client
    \/ disconnect_join_send
    \/ subscribe_send
    \/ send_message

\* the lifecycle model with a writing thread that is scheduled too: it
\* tests its loop condition and the predicate of its wait, and hands over
\* the frame it took; a wakeup without a notification is never owed
ThreadsLiveSpec ==
    /\ LifecycleLiveSpec
    /\ WF_vars(CallInProgress)
    /\ WF_vars(process_message_queue)
    /\ WF_vars(process_message_queue_wait)
    /\ WF_vars(process_message_queue_send)

(***************************************************************************)
(* The dispatch-table model: a new client that connects, registers a       *)
(* consumer, unsubscribes, disconnects and connects again while ticker     *)
(* frames arrive                                                           *)
(***************************************************************************)
TickerFrame == DataFrame(StreamName("TICKER", SOL_USDC), Payload)

TableNext ==
    \/ connect
    \/ connect_start
    \/ connect_wait
    \/ disconnect
    \/ disconnect_auth
    \/ disconnect_stop
    \/ disconnect_join_client
    \/ disconnect_join_send
    \/ register_callback("TICKER", SOL_USDC, "f")
    \/ unsubscribe("TICKER", SOL_USDC)
    \/ send_message
    \/ on_open
    \/ on_close
    \/ handler_auth_reset
    \/ run_client
    \/ on_message(TickerFrame)
    \/ handle_message
    \/ process_message_queue
    \/ process_message_queue_wait
    \/ spurious_wakeup
    \/ process_message_queue_send

TableSpec == Init /\ [][TableNext]_vars

(***************************************************************************)
(* BackpackClient backed by BackpackWebSocketClient: subscribe_ticker and  *)
(* subscribe_trades register a consumer that decodes what it is given and  *)
(* passes the record to the caller's consumer                              *)
(***************************************************************************)
\* the channels of subscribe_ticker and subscribe_trades
TypedChannels == { "TICKER", "TRADES" }

\* std::stod of the price texts the payloads carry
stod(str) ==
    CASE str = "150" -> 150
      [] str = "151" -> 151

\* the members from_json reads with j.at(...), which throws when one is
\* missing; of the price members, all read alike, the first is kept
Members(channel) ==
    IF channel = "TICKER" THEN {"symbol", "lastPrice"}
    ELSE {"symbol", "price"}

\* Ticker::from_json and Trade::from_json return
Decodes(channel, j) ==
    /\ Members(channel) \subseteq DOMAIN j
    /\ \A member \in Members(channel) \ {"symbol"} :
          j[member] \in {"150", "151"}

\* Ticker::from_json and Trade::from_json: the record
from_json(channel, j) ==
    IF channel = "TICKER"
    THEN [type |-> "Ticker", symbol |-> j.symbol,
          last_price |-> stod(j.lastPrice)]
    ELSE [type |-> "Trade", symbol |-> j.symbol, price |-> stod(j.price)]

\* the lambda of subscribe_to_channel<T>: the calls of the caller's
\* consumer it makes when invoked with arg
json_callback(channel, arg) ==
    IF contains(arg, "data")
    THEN IF Decodes(channel, arg.data)
         THEN <<from_json(channel, arg.data)>>
         ELSE <<>>
    ELSE <<>>

\* the name under which the lambda for a channel is held in callbacks_
Lambda(channel) == <<"json_callback", channel>>

\* the calls of the typed consumers made by the invocations of log
RECURSIVE TypedCalls(_)
TypedCalls(log) ==
    IF log = <<>>
    THEN <<>>
    ELSE (IF \E c \in TypedChannels : Head(log).callback = Lambda(c)
          THEN json_callback(Head(log).callback[2], Head(log).arg)
          ELSE <<>>) \o TypedCalls(Tail(log))

\* subscribe_to_channel<T>(channel, symbol, callback): register_callback
\* with the lambda, then subscribe, whose first step is taken here
subscribe_to_channel(channel, symbol) ==
    /\ ~crashed
    /\ UNCHANGED otherClients
    /\ pc = "idle"
    /\ mutex_ = "free"
    /\ CanPush(1)
    /\ Cardinality(DOMAIN callbacks_ \cup {get_callback_key(channel, symbol)})
          <= MaxCallbacks
    /\ callbacks_' =
          [k \in DOMAIN callbacks_ \cup {get_callback_key(channel, symbol)} |->
              IF k = get_callback_key(channel, symbol)
              THEN Lambda(channel) ELSE callbacks_[k]]
    /\ UNCHANGED << credentials_, general_callback_, mutex_, flagVars,
                    threadVars, readerVars, writerVars, queueVars, ackSeen,
                    crashed >>
    /\ IF ~is_connected
       THEN Return(Enter("subscribe", channel, symbol), FALSE, "not_connected")
       ELSE Begin(Enter("subscribe", channel, symbol), "subscribe_send")

\* the data payloads: a ticker, a trade, a payload that wraps a ticker in
\* a member "data", and a ticker without its price
TypedPayloads ==
    { [symbol |-> "SOL_USDC", lastPrice |-> "150"],
      [symbol |-> "SOL_USDC", lastPrice |-> "151"],
      [symbol |-> "SOL_USDC", price |-> "150"],
      [data |-> [symbol |-> "SOL_USDC", lastPrice |-> "150"]],
      [symbol |-> "SOL_USDC"] }

TypedInbound ==
    { DataFrame(StreamName(c, SOL_USDC), p) :
         c \in TypedChannels, p \in TypedPayloads }

TypedInit ==
    /\ Connected
    /\ credentials_ = [api_key |-> "", api_secret |-> ""]

TypedNext ==
    \/ \E c \in TypedChannels : subscribe_to_channel(c, SOL_USDC)
    \/ subscribe_send
    \/ send_message
    \/ \E m \in TypedInbound : on_message(m)
    \/ handle_message
    \/ process_message_queue
    \/ process_message_queue_wait
    \/ spurious_wakeup
    \/ process_message_queue_send

TypedSpec == TypedInit /\ [][TypedNext]_vars

\* handle_message routes the frame read to a typed consumer's entry, and
\* the frame's data payload decodes
RoutedToTyped ==
    /\ reader = "handle_message"
    /\ \E c \in TypedChannels :
          /\ rxMsg.stream = StreamName(c, SOL_USDC)
          /\ get_callback_key(c, SOL_USDC) \in DOMAIN callbacks_
          /\ callbacks_[get_callback_key(c, SOL_USDC)] = Lambda(c)
          /\ Decodes(c, rxMsg.data)

\* C27: for each inbound frame routed to the (channel, symbol) of a
\* consumer registered through subscribe_ticker or subscribe_trades, the
\* consumer is invoked exactly once, with the record decoded from the
\* frame's data payload
C27_TypedConsumerInvokedOnce ==
    [][(RoutedToTyped /\ handle_message)
         => \E c \in TypedChannels :
               /\ rxMsg.stream = StreamName(c, SOL_USDC)
               /\ TypedCalls(invoked') = <<from_json(c, rxMsg.data)>>]_vars

(***************************************************************************)
(* The Beast-based WebSocketClient and the BackpackClient built on it.     *)
(* Handlers are "none" (an empty std::function), "user" (set by a direct   *)
(* user of WebSocketClient) or "client" (the lambdas of                    *)
(* BackpackClient::connect).  connect() is called while m_ws has not been  *)
(* connected, and a message handler is set while no read is outstanding.   *)
(***************************************************************************)
\* handler invocations the model follows
MaxHandlerCalls == 3

\* text messages the server sends to this client
BeastMessages == { "authenticated", "data" }

\* one invocation of a handler; handlers that are empty are not invoked
HandlerCall(kind, handler, arg) ==
    IF handler = "none"
    THEN <<>>
    ELSE <<[kind |-> kind, handler |-> handler, arg |-> arg]>>

\* m_ws.async_read(...) at lines 165-166: a read started on a stream that
\* is not open completes with an error
IssueRead(stream) == IF stream = "open" THEN "pending" ELSE "failing"

\* void set_message_handler(handler): m_message_handler = handler;
\* async_read()
set_message_handler ==
    /\ client_pc = "idle"
    /\ m_read = "none"
    /\ m_message_handler' = "user"
    /\ m_read' = IssueRead(m_stream)
    /\ UNCHANGED << m_connected, m_stream, m_open_handler, m_close_handler,
                    m_fail_handler, handler_calls, client_pc,
                    client_connected_, client_authenticated_, socketClient,
                    retryVars, apiVars >>

\* void set_close_handler(handler): m_close_handler = handler
set_close_handler ==
    /\ client_pc = "idle"
    /\ m_close_handler' = "user"
    /\ UNCHANGED << m_connected, m_stream, m_read, m_open_handler,
                    m_message_handler, m_fail_handler, handler_calls,
                    client_pc, client_connected_, client_authenticated_,
                    socketClient,
                    retryVars, apiVars >>

\* void set_fail_handler(handler): m_fail_handler = handler
set_fail_handler ==
    /\ client_pc = "idle"
    /\ m_fail_handler' = "user"
    /\ UNCHANGED << m_connected, m_stream, m_read, m_open_handler,
                    m_close_handler, m_message_handler, handler_calls,
                    client_pc, client_connected_, client_authenticated_,
                    socketClient,
                    retryVars, apiVars >>

\* a variant of WebSocketClient::connect that invokes the open handler
\* when the handshakes succeed
WebSocketClient_connect_opening(ok) ==
    /\ m_stream = "unconnected"
    /\ m_connected' = ok
    /\ m_stream' = IF ok THEN "open" ELSE "unconnected"
    /\ client_pc' = "idle"
    /\ client_connected_' =
          (client_connected_ \/ (ok /\ m_open_handler = "client"))
    /\ UNCHANGED << m_read, handlerVars, handler_calls,
                    client_authenticated_, socketClient,
                    retryVars >>

\* bool WebSocketClient::connect(uri): resolve, connect and the two
\* handshakes; m_connected = true, or false when one of them throws
WebSocketClient_connect(ok) ==
    /\ m_stream = "unconnected"
    /\ m_connected' = ok
    /\ m_stream' = IF ok THEN "open" ELSE "unconnected"
    /\ client_pc' = "idle"
    /\ UNCHANGED << m_read, handlerVars, handler_calls, client_connected_,
                    client_authenticated_, socketClient,
                    retryVars >>

\* BackpackClient::connect, lines 204-254: return true when connected_;
\* else set the open, close and message handlers; set_message_handler
\* starts the first read
BackpackClient_connect ==
    /\ client_pc = "idle"
    /\ m_stream = "unconnected"
    /\ m_read = "none"
    /\ UNCHANGED << m_connected, m_stream, m_fail_handler, handler_calls,
                    client_connected_, client_authenticated_, socketClient,
                    retryVars, client_credentials, message_handlers_,
                    beast_written >>
    /\ IF client_connected_
       THEN /\ client_ret' = [call |-> "connect", val |-> TRUE]
            /\ UNCHANGED << m_read, m_open_handler, m_close_handler,
                            m_message_handler, client_pc >>
       ELSE /\ m_open_handler' = "client"
            /\ m_close_handler' = "client"
            /\ m_message_handler' = "client"
            /\ m_read' = IssueRead(m_stream)
            /\ client_pc' = "ws_connect"
            /\ UNCHANGED client_ret

\* BackpackClient::connect, line 257: return ws_client_->connect(url)
BackpackClient_connect_ws(ok) ==
    /\ client_pc = "ws_connect"
    /\ WebSocketClient_connect(ok)
    /\ client_ret' = [call |-> "connect", val |-> ok]
    /\ UNCHANGED << client_credentials, message_handlers_, beast_written >>

\* the peer or the network ends the connection
connection_lost ==
    /\ m_stream = "open"
    /\ m_stream' = "lost"
    /\ UNCHANGED << m_connected, m_read, handlerVars, handler_calls,
                    client_pc, client_connected_, client_authenticated_,
                    socketClient,
                    retryVars, apiVars >>

\* the message lambda of BackpackClient::connect, lines 220-254: the
\* value of authenticated_ after the message
client_on_message(msg) ==
    IF msg = "authenticated" THEN TRUE ELSE client_authenticated_

\* the completion handler of async_read without an error, lines 168-173:
\* the message handler is invoked, and the next read is started
async_read_ok(msg) ==
    /\ m_read = "pending"
    /\ m_stream = "open"
    /\ Len(handler_calls) < MaxHandlerCalls
    /\ handler_calls' =
          handler_calls \o HandlerCall("message", m_message_handler, msg)
    /\ client_authenticated_' =
          IF m_message_handler = "client"
          THEN client_on_message(msg) ELSE client_authenticated_
    /\ m_read' = IssueRead(m_stream)
    /\ UNCHANGED << m_connected, m_stream, handlerVars, client_pc,
                    client_connected_, socketClient,
                    retryVars, apiVars >>

\* the completion handler of async_read with an error, lines 174-177:
\* only the fail handler is invoked, and no read is started
async_read_fail ==
    /\ \/ m_read = "failing"
       \/ m_read = "pending" /\ m_stream = "lost"
    /\ Len(handler_calls) < MaxHandlerCalls
    /\ handler_calls' =
          handler_calls \o HandlerCall("fail", m_fail_handler, "Read failed")
    /\ m_read' = "none"
    /\ UNCHANGED << m_connected, m_stream, handlerVars, client_pc,
                    client_connected_, client_authenticated_, socketClient,
                    retryVars, apiVars >>

\* the credentials set_credentials is called with
BeastKeys == { "", "key" }
BeastSecrets == { "", "secret" }

\* BackpackClient::set_credentials, lines 197-201
BackpackClient_set_credentials(api_key, api_secret) ==
    /\ client_pc = "idle"
    /\ client_credentials' = [api_key |-> api_key, api_secret |-> api_secret]
    /\ client_ret' = [call |-> "set_credentials", val |-> TRUE]
    /\ UNCHANGED << m_connected, m_stream, m_read, handlerVars,
                    handler_calls, client_pc, client_connected_,
                    client_authenticated_, message_handlers_, beast_written,
                    socketClient, retryVars >>

\* BackpackClient::is_connected, lines 271-273: return connected_
BackpackClient_is_connected ==
    /\ client_pc = "idle"
    /\ client_ret' = [call |-> "is_connected", val |-> client_connected_]
    /\ UNCHANGED << m_connected, m_stream, m_read, handlerVars,
                    handler_calls, client_pc, client_connected_,
                    client_authenticated_, client_credentials,
                    message_handlers_, beast_written, socketClient,
                    retryVars >>

\* WebSocketClient::send, part_003 lines 136-145: m_ws.write; when the
\* write throws, the fail handler is invoked and nothing is written
WebSocketClient_send(text) ==
    IF m_stream = "open"
    THEN /\ Len(beast_written) < MaxHandlerCalls
         /\ beast_written' = Append(beast_written, text)
         /\ UNCHANGED handler_calls
    ELSE /\ Len(handler_calls) < MaxHandlerCalls
         /\ handler_calls' =
               handler_calls \o HandlerCall("fail", m_fail_handler,
                                            "Failed to send message")
         /\ UNCHANGED beast_written

\* BackpackClient::authenticate, lines 275-293: false when not connected,
\* already authenticated or without credentials; else the frame with the
\* key and the secret is sent and true is returned
BackpackClient_authenticate ==
    /\ client_pc = "idle"
    /\ IF \/ ~client_connected_
          \/ client_authenticated_
          \/ client_credentials.api_key = ""
          \/ client_credentials.api_secret = ""
       THEN /\ client_ret' = [call |-> "authenticate", val |-> FALSE]
            /\ UNCHANGED << beast_written, handler_calls >>
       ELSE /\ WebSocketClient_send(
                  [type |-> "auth",
                   key |-> client_credentials.api_key,
                   secret |-> client_credentials.api_secret])
            /\ client_ret' = [call |-> "authenticate", val |-> TRUE]
    /\ UNCHANGED << m_connected, m_stream, m_read, handlerVars, client_pc,
                    client_connected_, client_authenticated_,
                    client_credentials, message_handlers_, socketClient,
                    retryVars >>

\* BackpackClient::subscribe_to_channel, lines 295-331, which
\* subscribe_ticker and subscribe_trades call: false when not connected;
\* else the handler is stored, the request sent and true returned
BackpackClient_subscribe_to_channel(channel, symbol) ==
    /\ client_pc = "idle"
    /\ IF ~client_connected_
       THEN /\ client_ret' = [call |-> "subscribe", val |-> FALSE]
            /\ UNCHANGED << message_handlers_, beast_written,
                            handler_calls >>
       ELSE /\ message_handlers_' =
                  message_handlers_
                      \cup { channel_to_string(channel) \o <<":">> \o symbol }
            /\ WebSocketClient_send(
                  [type |-> "subscribe",
                   channel |-> channel_to_string(channel),
                   symbol |-> symbol])
            /\ client_ret' = [call |-> "subscribe", val |-> TRUE]
    /\ UNCHANGED << m_connected, m_stream, m_read, handlerVars, client_pc,
                    client_connected_, client_authenticated_,
                    client_credentials, socketClient, retryVars >>

BeastNext ==
    \/ set_message_handler
    \/ set_close_handler
    \/ set_fail_handler
    \/ \E ok \in BOOLEAN :
          /\ client_pc = "idle"
          /\ WebSocketClient_connect(ok)
          /\ UNCHANGED apiVars
    \/ BackpackClient_connect
    \/ \E ok \in BOOLEAN : BackpackClient_connect_ws(ok)
    \/ connection_lost
    \/ \E msg \in BeastMessages : async_read_ok(msg)
    \/ async_read_fail
    \/ \E api_key \in BeastKeys, api_secret \in BeastSecrets :
          BackpackClient_set_credentials(api_key, api_secret)
    \/ BackpackClient_is_connected
    \/ BackpackClient_authenticate
    \/ \E channel \in {"TICKER", "TRADES"} :
          BackpackClient_subscribe_to_channel(channel, SOL_USDC)

BeastSpec == Init /\ [][BeastNext]_vars

\* connect() of BackpackClient has just returned true and the transport
\* has not failed since
JustConnected ==
    /\ client_ret = [call |-> "connect", val |-> TRUE]
    /\ m_stream = "open"

\* C25: right after connect() of the Beast-backed BackpackClient returned
\* true, with the transport still up, is_connected() returns true and
\* subscribe_ticker and subscribe_trades do not return false
C25_ConnectedAfterConnect ==
    [][(/\ JustConnected
        /\ \/ BackpackClient_is_connected
           \/ \E channel \in {"TICKER", "TRADES"} :
                 BackpackClient_subscribe_to_channel(channel, SOL_USDC))
       => client_ret'.val]_vars

MaxSends == 2
\* calls of connect() by the user the model follows
MaxConnects == 2

MAX_QUEUE_SIZE == 1000
MAX_RETRY_ATTEMPTS == 5

\* the messages callers send
RetryMessages == { "SUBSCRIBE", "PING" }

\* the parameters callers connect with
GoodParams == [uri |-> "wss", api_key |-> "key", api_secret |-> "secret"]
RetryParams == { GoodParams, [GoodParams EXCEPT !.api_secret = ""] }

\* ed25519_sign_b64 throws for a secret that does not decode to 32 or 64
\* bytes
Signs(api_secret) == api_secret # ""

Thrown(what) == [kind |-> "thrown", val |-> FALSE, what |-> what]
Result(val) == [kind |-> "returned", val |-> val, what |-> ""]

\* bool is_connected() const of the retrying client
ws_is_connected == m_ws = "Open"

\* connect(uri, api_key, api_secret), lines 106-132, for the outcome `ok`
\* of m_ws.connect: what it returns or throws
ConnectOutcome(open, params, ok) ==
    IF open THEN Thrown("Already connected")
    ELSE IF ~Signs(params.api_secret)
    THEN Thrown("invalid Ed25519 secret length")
    ELSE IF ~ok THEN Thrown("Failed to connect to server")
    ELSE Result(TRUE)

\* the connection drops: the ready state is no longer Open
ws_drop ==
    /\ m_ws = "Open"
    /\ m_ws' = "Closed"
    /\ UNCHANGED << ws_connection, m_message_queue, m_params, m_running,
                    sendVars, send_result, ws_written, beastVars,
                    socketClient >>

\* connect(uri, api_key, api_secret) called by the user
ws_connect(params, ok) ==
    /\ send_pc = "idle"
    /\ ws_connection < MaxConnects
    /\ send_result' = ConnectOutcome(ws_is_connected, params, ok)
    /\ m_params' = IF ws_is_connected THEN m_params ELSE params
    /\ IF send_result'.kind = "returned"
       THEN /\ m_ws' = "Open"
            /\ ws_connection' = ws_connection + 1
            /\ m_running' = TRUE
       ELSE UNCHANGED << m_ws, ws_connection, m_running >>
    /\ UNCHANGED << m_message_queue, sendVars, ws_written, beastVars,
                    socketClient >>

\* send(message), lines 134-145, up to the call of send_with_retry
send(msg) ==
    /\ send_pc = "idle"
    /\ Len(m_message_queue) < MaxSends
    /\ UNCHANGED << m_ws, ws_connection, m_params, m_running, ws_written,
                    beastVars, socketClient >>
    /\ IF ~ws_is_connected
       THEN /\ send_result' = Thrown("Not connected to server")
            /\ UNCHANGED << m_message_queue, sendVars >>
       ELSE IF Len(m_message_queue) >= MAX_QUEUE_SIZE
       THEN /\ send_result' = Thrown("Message queue is full")
            /\ UNCHANGED << m_message_queue, sendVars >>
       ELSE /\ m_message_queue' = Append(m_message_queue, msg)
            /\ sending' = msg
            /\ attempt' = 0
            /\ writes' = 0
            /\ slept' = <<>>
            /\ send_result' = NoResult
            /\ send_pc' = "send_with_retry"

\* a variant of reconnect that sends again, on the new connection, what
\* m_message_queue holds
reconnect_replaying_queue(ok) ==
    LET outcome == IF m_params.uri = "" \/ m_params.api_key = ""
                      \/ m_params.api_secret = ""
                   THEN Thrown("Missing connection parameters")
                   ELSE ConnectOutcome(FALSE, m_params, ok)
    IN  /\ m_running' = (outcome.kind = "returned")
        /\ UNCHANGED << m_params, m_message_queue >>
        /\ IF outcome.kind = "returned"
           THEN /\ m_ws' = "Open"
                /\ ws_connection' = ws_connection + 1
                /\ ws_written' =
                      ws_written \o
                      [i \in 1..Len(m_message_queue) |->
                          [connection |-> ws_connection + 1,
                           msg |-> m_message_queue[i]]]
                /\ send_pc' = "write"
                /\ UNCHANGED send_result
           ELSE /\ send_result' = outcome
                /\ send_pc' = "idle"
                /\ UNCHANGED << m_ws, ws_connection, ws_written >>

\* reconnect(), lines 183-190, called by send_with_retry while not
\* connected: throw when a stored parameter is empty; close(), which sets
\* m_running = false; return connect(m_uri, m_api_key, m_api_secret), which
\* returns true or throws.  An exception leaves send_with_retry and send().
reconnect(ok) ==
    LET outcome == IF m_params.uri = "" \/ m_params.api_key = ""
                      \/ m_params.api_secret = ""
                   THEN Thrown("Missing connection parameters")
                   ELSE ConnectOutcome(FALSE, m_params, ok)
    IN  /\ m_running' = (outcome.kind = "returned")
        /\ UNCHANGED << m_params, m_message_queue, ws_written >>
        /\ IF outcome.kind = "returned"
           THEN /\ m_ws' = "Open"
                /\ ws_connection' = ws_connection + 1
                /\ send_pc' = "write"
                /\ UNCHANGED send_result
           ELSE /\ send_result' = outcome
                /\ send_pc' = "idle"
                /\ UNCHANGED << m_ws, ws_connection >>

\* send_with_retry, lines 168-172: the loop test, and
\* if (!is_connected() && !reconnect()) { sleep; continue; }
send_with_retry(ok) ==
    /\ send_pc = "send_with_retry"
    /\ UNCHANGED << sending, attempt, writes, slept, beastVars,
                    socketClient >>
    /\ IF attempt >= MAX_RETRY_ATTEMPTS
       THEN /\ send_result' = Result(FALSE)
            /\ send_pc' = "idle"
            /\ UNCHANGED << m_ws, ws_connection, m_message_queue, m_params,
                            m_running, ws_written >>
       ELSE IF ~ws_is_connected
       THEN reconnect(ok)
       ELSE /\ send_pc' = "write"
            /\ UNCHANGED << m_ws, ws_connection, m_message_queue, m_params,
                            m_running, send_result, ws_written >>

\* the delay after the failed attempt: 100 * (1 << attempt) ms
Backoff(n) == 100 * 2 ^ n

\* send_with_retry, lines 174-178: if (m_ws.send(message).success) return
\* true; else sleep and go on with the next attempt
send_with_retry_write(success) ==
    /\ send_pc = "write"
    /\ success => ws_is_connected
    /\ writes' = writes + 1
    /\ UNCHANGED << m_ws, ws_connection, m_message_queue, m_params,
                    m_running, sending, beastVars, socketClient >>
    /\ IF success
       THEN /\ ws_written' =
                  Append(ws_written,
                         [connection |-> ws_connection, msg |-> sending])
            /\ send_result' = Result(TRUE)
            /\ send_pc' = "idle"
            /\ UNCHANGED << attempt, slept >>
       ELSE /\ slept' = Append(slept, Backoff(attempt))
            /\ attempt' = attempt + 1
            /\ send_pc' = "send_with_retry"
            /\ UNCHANGED << send_result, ws_written >>

RetryNext ==
    \/ \E params \in RetryParams, ok \in BOOLEAN : ws_connect(params, ok)
    \/ \E msg \in RetryMessages : send(msg)
    \/ \E ok \in BOOLEAN : send_with_retry(ok)
    \/ \E success \in BOOLEAN : send_with_retry_write(success)
    \/ ws_drop

RetrySpec == Init /\ [][RetryNext]_vars

(***************************************************************************)
(* types.hpp and handle_message: the conversions between Channel values,   *)
(* stream names and symbols, applied to arguments the initial state draws  *)
(***************************************************************************)
\* the segments of the symbols converted
Bases == { "SOL", "BTC", "ETH" }
Quotes == { "USDC", "USDT" }
\* the channels whose stream names carry the symbols converted
SymbolChannels == { "TICKER", "TRADES", "DEPTH" }

\* BASE-QUOTE, the form the callers use
HyphenForm(base, quote) == <<base, "-", quote>>
\* BASE_QUOTE, the form the stream names use
WireForm(base, quote) == <<base, "_", quote>>

ConvInputs ==
    [op : {"channel_to_string"}, a : Channel, b : Channel]
    \cup [op : {"string_to_channel"}, channel : Channel]
    \cup [op : {"to_json"}, channel : SymbolChannels,
                base : Bases, quote : Quotes]
    \cup [op : {"handle_message"}, channel : SymbolChannels,
                base : Bases, quote : Quotes]

ConvInit ==
    /\ Constructed
    /\ BeastInit
    /\ RetryInit
    /\ SideIdle
    /\ fn_in \in ConvInputs
    /\ fn_out = NoOut

\* channel_to_string applied to two Channel values
apply_channel_to_string ==
    /\ fn_in.op = "channel_to_string"
    /\ fn_out = NoOut
    /\ fn_out' = [op |-> "channel_to_string",
                  a |-> channel_to_string(fn_in.a),
                  b |-> channel_to_string(fn_in.b)]
    /\ UNCHANGED << socketClientVars, beastVars, retryVars, sideVars, fn_in >>

\* string_to_channel applied to the name of a Channel value, and
\* channel_to_string to the channel it returns, when it returns one
apply_string_to_channel ==
    /\ fn_in.op = "string_to_channel"
    /\ fn_out = NoOut
    /\ LET name == channel_to_string(fn_in.channel)
           back == string_to_channel(name)
       IN  fn_out' = [op |-> "string_to_channel",
                      name |-> name,
                      back |-> back,
                      again |-> IF back = NoChannel THEN <<>>
                                ELSE channel_to_string(back)]
    /\ UNCHANGED << socketClientVars, beastVars, retryVars, sideVars, fn_in >>

\* SubscriptionRequest::to_json for BASE-QUOTE, then the stream name it
\* built parsed as handle_message parses it
apply_to_json ==
    /\ fn_in.op = "to_json"
    /\ fn_out = NoOut
    /\ LET symbol == HyphenForm(fn_in.base, fn_in.quote)
           stream == SubscriptionRequest_to_json(fn_in.channel,
                                                 symbol).params[1]
       IN  fn_out' = [op |-> "to_json",
                      symbol |-> symbol,
                      stream |-> stream,
                      back |-> ParseStream(stream).symbol]
    /\ UNCHANGED << socketClientVars, beastVars, retryVars, sideVars, fn_in >>

\* handle_message's parse of a stream name carrying BASE_QUOTE, then
\* SubscriptionRequest::to_json for the channel and symbol it found
apply_handle_message ==
    /\ fn_in.op = "handle_message"
    /\ fn_out = NoOut
    /\ LET stream == channel_to_string(fn_in.channel) \o <<".">>
                        \o WireForm(fn_in.base, fn_in.quote)
           parsed == ParseStream(stream)
           channel_opt == string_to_channel(parsed.channel_str)
       IN  fn_out' = [op |-> "handle_message",
                      stream |-> stream,
                      symbol |-> parsed.symbol,
                      again |-> IF channel_opt = NoChannel THEN <<>>
                                ELSE SubscriptionRequest_to_json(
                                         channel_opt,
                                         parsed.symbol).params[1]]
    /\ UNCHANGED << socketClientVars, beastVars, retryVars, sideVars, fn_in >>

ConvNext ==
    \/ apply_channel_to_string
    \/ apply_string_to_channel
    \/ apply_to_json
    \/ apply_handle_message

ConvSpec == ConvInit /\ [][ConvNext]_vars

\* C22: every Channel value has a stream name, and no two distinct
\* Channel values have the same one
C22_NamesInjective ==
    (fn_out.op = "channel_to_string")
        => /\ Len(fn_out.a) > 0
           /\ Len(fn_out.b) > 0
           /\ (fn_in.a # fn_in.b => fn_out.a # fn_out.b)

\* the pairs of Channel values channel_to_string gives one name
ChannelAliases ==
    { {"DEPTH", "DEPTH_SNAPSHOT"}, {"USER_ORDERS", "ORDERS"},
      {"USER_POSITIONS", "POSITIONS"}, {"USER_BALANCES", "BALANCES"} }

\* C22, amended: every Channel value has a stream name, and two distinct
\* Channel values have the same one exactly when they are DEPTH and
\* DEPTH_SNAPSHOT, USER_ORDERS and ORDERS, USER_POSITIONS and POSITIONS,
\* or USER_BALANCES and BALANCES
C22_NamesInjectiveUpToAliases ==
    (fn_out.op = "channel_to_string")
        => /\ Len(fn_out.a) > 0
           /\ Len(fn_out.b) > 0
           /\ (fn_in.a # fn_in.b =>
                  (fn_out.a = fn_out.b <=>
                      {fn_in.a, fn_in.b} \in ChannelAliases))

C22_DistinctNames ==
    /\ fn_in = [op |-> "channel_to_string",
                a |-> "TRADES", b |-> "USER_TRADES"]
    /\ fn_out.op = "channel_to_string"
    /\ fn_out.a = <<"trades">>
    /\ fn_out.b = <<"user", ".", "trades">>

\* C23: the name of every Channel value is parsed to a channel, and that
\* channel has the same name
C23_NameRoundTrip ==
    (fn_out.op = "string_to_channel")
        => /\ fn_out.back \in Channel
           /\ fn_out.again = fn_out.name

\* C24: a symbol BASE-QUOTE becomes BASE_QUOTE in the stream name and is
\* parsed back to BASE-QUOTE; a stream name carrying BASE_QUOTE is parsed
\* to BASE-QUOTE, which becomes BASE_QUOTE in the stream name again
C24_SymbolRoundTrip ==
    /\ (fn_out.op = "to_json")
          => /\ fn_out.stream =
                   channel_to_string(fn_in.channel) \o <<".">>
                       \o WireForm(fn_in.base, fn_in.quote)
             /\ fn_out.back = fn_out.symbol
    /\ (fn_out.op = "handle_message")
          => /\ fn_out.symbol = HyphenForm(fn_in.base, fn_in.quote)
             /\ fn_out.again = fn_out.stream

C24_SolUsdcBothWays ==
    /\ fn_out.op = "to_json"
    /\ fn_out.symbol = <<"SOL", "-", "USDC">>
    /\ fn_out.stream = <<"trades", ".", "SOL", "_", "USDC">>
    /\ fn_out.back = <<"SOL", "-", "USDC">>

(***************************************************************************)
(* What the secret becomes on the wire: the authentication frame of        *)
(* generate_auth_payload, the handshake headers of                         *)
(* BackpackWebSocketClient::connect, each computed for two secrets, and    *)
(* the frames the Beast-backed BackpackClient writes                       *)
(***************************************************************************)
WireKeys == { "", "key" }
WireSecrets == { "secret", "other" }

WireInputs ==
    [op : {"generate_auth_payload", "connect"}, api_key : WireKeys,
     api_secret : WireSecrets, other_secret : WireSecrets]

WireInit ==
    /\ Constructed
    /\ BeastInit
    /\ RetryInit
    /\ SideIdle
    /\ fn_in \in WireInputs
    /\ fn_out = NoOut

\* generate_auth_payload for the key and each of the two secrets
apply_generate_auth_payload ==
    /\ fn_in.op = "generate_auth_payload"
    /\ fn_out = NoOut
    /\ fn_out' = [op |-> "generate_auth_payload",
                  one |-> generate_auth_payload(fn_in.api_key,
                                                fn_in.api_secret),
                  two |-> generate_auth_payload(fn_in.api_key,
                                                fn_in.other_secret)]
    /\ UNCHANGED << socketClientVars, beastVars, retryVars, sideVars, fn_in >>

\* the headers connect() appends, for the key and each of the two secrets
apply_connect_headers ==
    /\ fn_in.op = "connect"
    /\ fn_out = NoOut
    /\ fn_out' = [op |-> "connect",
                  one |-> connect_headers(
                              [api_key |-> fn_in.api_key,
                               api_secret |-> fn_in.api_secret]),
                  two |-> connect_headers(
                              [api_key |-> fn_in.api_key,
                               api_secret |-> fn_in.other_secret])]
    /\ UNCHANGED << socketClientVars, beastVars, retryVars, sideVars, fn_in >>

WireNext ==
    \/ apply_generate_auth_payload
    \/ apply_connect_headers
    \/ \E api_key \in BeastKeys, api_secret \in BeastSecrets :
          BackpackClient_set_credentials(api_key, api_secret)
    \/ BackpackClient_connect
    \/ \E ok \in BOOLEAN : BackpackClient_connect_ws(ok)
    \/ BackpackClient_authenticate
    \/ async_read_fail
    \/ connection_lost

WireSpec == WireInit /\ [][WireNext]_vars

\* the members of a frame or of a set of headers, the signature excepted
Unsigned(j) == DOMAIN j \ {"signature", "X-Signature"}

FramesOf(w) == [i \in 1..Len(w) |-> w[i].frame]

\* the frame the writer has taken from the queue and not yet handed over
InFlight == IF writer = "send" THEN <<message>> ELSE <<>>

\* C1: the frames handed to the transport, then the frame the writer holds,
\* then the frames still queued, are exactly the frames send_message pushed,
\* in push order: the writer hands frames over in push order, none twice,
\* none skipped, whatever the interleaving of callers and writer.
C1_WrittenInPushOrder ==
    FramesOf(written) \o InFlight \o message_queue_ = pushed

\* a subscribe and an unsubscribe were pushed and written, in that order
C1_SubscribeThenUnsubscribeWritten ==
    /\ Len(written) = 2
    /\ written[1].frame = SubscriptionRequest_to_json("TICKER", SOL_USDC)
    /\ written[2].frame = UnsubscriptionRequest_to_json("TICKER", SOL_USDC)
    /\ pushed = FramesOf(written)

\* a capacity below the number of pushes the model lets callers make
QueueCapacity == MaxFrames - 1

\* C2: the outbound queue never holds more than its capacity N (a push on a
\* full queue fails instead).
C2_QueueWithinCapacity == Len(message_queue_) <= QueueCapacity

(***************************************************************************)
(* Properties of authenticate() and of subscribe() on account channels     *)
(***************************************************************************)
\* the SUBSCRIBE frames among the frames a call pushed
SubscribeFrames(frames) ==
    { i \in 1..Len(frames) :
         contains(frames[i], "method") /\ frames[i].method = "SUBSCRIBE" }

\* C3: a subscribe() for an account channel that found the client not
\* authenticated has run authenticate(), and when authenticate() did not
\* return true, subscribe() returned false and pushed no SUBSCRIBE frame.
C3_AccountSubscribeNeedsAuth ==
    ( /\ ret.op = "subscribe"
      /\ ret.channel \in AuthChannels
      /\ ret.why # "not_connected"
      /\ ~ret.was_auth )
    => /\ ret.auth # "none"
       /\ ret.auth # "ok" => /\ ret.val = FALSE
                             /\ SubscribeFrames(ret.frames) = {}
                             /\ ret.why = "auth_failed"

\* with credentials unset, subscribe(USER_ORDERS, "") on a connected client
\* returned false and left the queue empty
C3_UnsetCredentialsSubscribeFails ==
    /\ credentials_ = [api_key |-> "", api_secret |-> ""]
    /\ connected_
    /\ ret.op = "subscribe"
    /\ ret.channel = "USER_ORDERS"
    /\ ret.symbol = <<>>
    /\ ret.auth = "invalid_credentials"
    /\ ret.val = FALSE
    /\ message_queue_ = <<>>
    /\ pushed = <<>>

\* the step of authenticate() that finds the client not connected, or the
\* API key or the secret empty
AuthenticateRefused ==
    \/ authenticate /\ ~connected_
    \/ /\ authenticate_creds
       /\ call.op = "authenticate"
       /\ credentials_.api_key = "" \/ credentials_.api_secret = ""

\* C4: authenticate() on a client that is not connected or whose API key
\* or secret is empty returns false in that very step, pushes no frame,
\* writes nothing to the transport and leaves both flags as they were.
C4_AuthenticateRefusedIsNoOp ==
    [][ AuthenticateRefused =>
           /\ pc' = "idle"
           /\ ret'.op = "authenticate"
           /\ ret'.val = FALSE
           /\ ret'.frames = <<>>
           /\ UNCHANGED << connected_, authenticated_, message_queue_,
                           pushed, written, conn >> ]_vars

\* authenticate() returned false on a connected client that has a key and
\* no secret, with nothing pushed
C4_RefusedForEmptySecret ==
    /\ connected_
    /\ credentials_.api_key # ""
    /\ credentials_.api_secret = ""
    /\ ret.op = "authenticate"
    /\ ret.why = "invalid_credentials"
    /\ ret.val = FALSE
    /\ pushed = <<>>

\* a step in which authenticate(), called from the outside on a client that
\* was not authenticated, returns and no successful acknowledgment arrived
\* while it ran
AuthenticateUnacknowledged ==
    /\ call.op = "authenticate"
    /\ pc' = "idle"
    /\ ret'.op = "authenticate"
    /\ ~ret'.was_auth
    /\ ~ret'.ack

Underscored(symbol) ==
    [i \in 1..Len(symbol) |-> IF symbol[i] = "-" THEN "_" ELSE symbol[i]]

\* the params entry for (channel, symbol): the channel's name, and when the
\* symbol is not empty a '.' and the symbol as it appears on the wire
WireStream(channel, symbol) ==
    IF symbol = <<>>
    THEN channel_to_string(channel)
    ELSE channel_to_string(channel) \o <<".">> \o Underscored(symbol)

MethodOf(op) == IF op = "subscribe" THEN "SUBSCRIBE" ELSE "UNSUBSCRIBE"

\* C6: a subscribe() or unsubscribe() for a market channel that returned
\* true pushed exactly one frame, the last of the queue:
\* {"method": SUBSCRIBE or UNSUBSCRIBE, "params": [name.symbol_with_'_']},
\* "ticker.SOL_USDC" for (TICKER, "SOL-USDC"), and the channel name alone
\* when the symbol is empty.
C6_OneFramePerSubscribe ==
    ( /\ ret.op \in {"subscribe", "unsubscribe"}
      /\ ret.channel \notin AuthChannels
      /\ ret.val )
    => /\ ret.frames =
             << [method |-> MethodOf(ret.op),
                 params |-> <<WireStream(ret.channel, ret.symbol)>>] >>
       /\ message_queue_[Len(message_queue_)] = ret.frames[1]
       /\ \A i \in 1..Len(ret.frames[1].params[1]) :
             ret.frames[1].params[1][i] # "-"
       /\ (ret.channel = "TICKER" /\ ret.symbol = <<"SOL", "-", "USDC">>)
             => ret.frames[1].params =
                   << <<"ticker", ".", "SOL", "_", "USDC">> >>
       /\ ret.symbol = <<>>
             => ret.frames[1].params = <<channel_to_string(ret.channel)>>

\* subscribe(TICKER, "SOL-USDC") and then unsubscribe(TICKER, "SOL-USDC")
\* returned true; the queue holds their two frames
C6_TickerSubscribedAndUnsubscribed ==
    /\ ret.op = "unsubscribe"
    /\ ret.val
    /\ message_queue_ =
          << [method |-> "SUBSCRIBE",
              params |-> << <<"ticker", ".", "SOL", "_", "USDC">> >>],
             [method |-> "UNSUBSCRIBE",
              params |-> << <<"ticker", ".", "SOL", "_", "USDC">> >>] >>

(***************************************************************************)
(* Properties of the dispatch of inbound payloads                          *)
(***************************************************************************)
\* the invocations a step adds to the log of the payload being handled
NewInvocations == SubSeq(invoked', Len(invoked) + 1, Len(invoked'))

\* the invocations among `log` of the consumer registered at `slot`
InvocationsOf(log, slot) == { i \in 1..Len(log) : log[i].slot = slot }

\* C7: when handle_message handles a frame whose stream is the name
\* subscribe(c, s) sends, and a consumer is registered for (c, s), that
\* consumer is invoked exactly once with the frame's data.
C7_StreamReachesItsConsumer ==
    [][ handle_message =>
           \A c \in DispatchChannels, s \in DispatchSymbols :
              ( /\ contains(rxMsg, "stream")
                /\ contains(rxMsg, "data")
                /\ rxMsg.stream = StreamName(c, s)
                /\ get_callback_key(c, s) \in DOMAIN callbacks_ )
              => /\ Cardinality(InvocationsOf(NewInvocations,
                                              get_callback_key(c, s))) = 1
                 /\ \A i \in InvocationsOf(NewInvocations,
                                           get_callback_key(c, s)) :
                       NewInvocations[i].arg = rxMsg.data ]_vars

\* the channel and the symbol handle_message reads from a data frame
FrameChannel(msg) == string_to_channel(ParseStream(msg.stream).channel_str)
FrameSymbol(msg) == ParseStream(msg.stream).symbol

\* a well-formed data frame for a channel handle_message knows
WellFormed(msg) ==
    /\ Parses(msg)
    /\ ~contains(msg, "error")
    /\ contains(msg, "stream")
    /\ contains(msg, "data")
    /\ FrameChannel(msg) \in Channel

\* C8: for a well-formed data frame for (channel, symbol), handle_message
\* invokes the consumer registered at (channel, symbol) with the data; if
\* there is none, the consumer registered at (channel, ""); if there is
\* none either, no consumer, and nothing is caught.  Never more than one.
C8_ExactThenChannelThenNone ==
    [][ (handle_message /\ WellFormed(rxMsg)) =>
           LET exact == get_callback_key(FrameChannel(rxMsg),
                                         FrameSymbol(rxMsg))
               all == get_callback_key(FrameChannel(rxMsg), <<>>)
           IN  /\ Len(NewInvocations) <= 1
               /\ exact \in DOMAIN callbacks_
                     => NewInvocations =
                           << [slot |-> exact,
                               callback |-> callbacks_[exact],
                               arg |-> rxMsg.data] >>
               /\ (exact \notin DOMAIN callbacks_ /\ all \in DOMAIN callbacks_)
                     => NewInvocations =
                           << [slot |-> all,
                               callback |-> callbacks_[all],
                               arg |-> rxMsg.data] >>
               /\ (exact \notin DOMAIN callbacks_
                      /\ all \notin DOMAIN callbacks_)
                     => /\ NewInvocations = <<>>
                        /\ ~caught'
                        /\ reader' = "run" ]_vars

\* consumers are registered at (TICKER, "SOL-USDC") and at (TICKER, ""),
\* and a ticker frame for SOL_USDC went to the first one only
C8_ExactPreferredOverChannel ==
    /\ DOMAIN callbacks_ =
          { <<"ticker", ":", "SOL", "-", "USDC">>, <<"ticker">> }
    /\ general_callback_ = NoCallback
    /\ rxMsg = DataFrame(<<"ticker", ".", "SOL", "_", "USDC">>, Payload)
    /\ reader = "run"
    /\ invoked =
          << [slot |-> <<"ticker", ":", "SOL", "-", "USDC">>,
              callback |-> callbacks_[<<"ticker", ":", "SOL", "-", "USDC">>],
              arg |-> Payload] >>

\* C9: when on_message receives a payload that parses and a catch-all
\* consumer is registered, the catch-all consumer is invoked exactly once
\* with it.
C9_CatchAllSeesEveryParsedFrame ==
    [][ \A m \in DispatchInbound :
           (on_message(m) /\ Parses(m) /\ general_callback_ # NoCallback)
           => /\ Cardinality(InvocationsOf(invoked', "general")) = 1
              /\ \A i \in InvocationsOf(invoked', "general") :
                    invoked'[i].arg = m ]_vars

\* one payload for each way on_message treats a payload: text it cannot
\* parse, the authentication answer, and a frame it hands on
NextPayloads ==
    { Garbage, AuthOk,
      DataFrame(<<"ticker", ".", "SOL", "_", "USDC">>, Payload) }

\* a step of on_message (for the payload rxMsg', which on_message stores)
\* or of handle_message in which a consumer throws
ConsumerThrows ==
    /\ on_message(rxMsg') \/ handle_message
    /\ \E i \in 1..Len(NewInvocations) :
          NewInvocations[i].callback \in Throwing

KnownStream(stream) ==
    \E c \in Channel :
       LET name == channel_to_string(c)
       IN  \/ stream = name
           \/ /\ Len(stream) > Len(name) + 1
              /\ SubSeq(stream, 1, Len(name) + 1) = name \o <<".">>

\* the answer to the authentication frame, which on_message consumes
AuthResponse(msg) == contains(msg, "type") /\ msg.type = "auth"

\* text that is no JSON, or a frame other than the authentication answer
\* without stream, without data, or with a stream whose channel name is
\* unknown
Malformed(msg) ==
    \/ ~Parses(msg)
    \/ /\ ~AuthResponse(msg)
       /\ \/ ~contains(msg, "stream")
          \/ ~contains(msg, "data")
          \/ ~KnownStream(msg.stream)

\* the invocations of per-channel consumers in a log
PerChannel(log) == { i \in 1..Len(log) : log[i].slot # "general" }

\* C11: a malformed payload reaches no per-channel consumer, in on_message
\* or in handle_message; handling it changes neither flag nor the
\* connection and ends with the reading thread back in the transport's
\* loop, where on_message can take every payload that follows.
C11_MalformedFrameDropped ==
    /\ [][ (on_message(rxMsg') /\ Malformed(rxMsg'))
              => /\ PerChannel(invoked') = {}
                 /\ reader' \in {"run", "handle_message"}
                 /\ ~Parses(rxMsg') => reader' = "run"
                 /\ ~crashed'
                 /\ UNCHANGED << connected_, authenticated_, conn,
                                 callbacks_ >> ]_vars
    /\ [][ (handle_message /\ Malformed(rxMsg))
              => /\ NewInvocations = <<>>
                 /\ reader' = "run"
                 /\ ~caught'
                 /\ ~crashed'
                 /\ UNCHANGED << connected_, authenticated_, conn,
                                 callbacks_ >> ]_vars
    /\ []( (reader = "run" /\ Malformed(rxMsg))
           => \A m \in NextPayloads : ENABLED on_message(m) )

\* a frame for the unknown channel "kline" was handled with a consumer
\* registered for the ticker of the same symbol: only the catch-all
\* consumer saw it, and the client is still connected
C11_UnknownChannelDropped ==
    /\ rxMsg = DataFrame(<<"kline", ".", "SOL", "_", "USDC">>, Payload)
    /\ <<"ticker", ":", "SOL", "-", "USDC">> \in DOMAIN callbacks_
    /\ general_callback_ = "g"
    /\ invoked = << [slot |-> "general", callback |-> "g", arg |-> rxMsg] >>
    /\ reader = "run"
    /\ ~caught
    /\ connected_

(***************************************************************************)
(* C12: unsubscribe(c, s) that returns true also removes the dispatch-     *)
(* table entry for (c, s), so that a later frame for (c, s) invokes no     *)
(* consumer registered under that key before the unsubscribe.              *)
(***************************************************************************)
\* the step in which unsubscribe() returns true: it pushed its frame
UnsubscribeReturnsTrue == send_message /\ call.op = "unsubscribe"

C12_UnsubscribeRemovesEntry ==
    [][ UnsubscribeReturnsTrue =>
          get_callback_key(call.channel, call.symbol) \notin DOMAIN callbacks_'
      ]_vars

(***************************************************************************)
(* C13: whenever disconnect() returns, connected and authenticated are     *)
(* false and both threads have stopped and been joined, also when the      *)
(* peer had closed the transport or an earlier connect() had timed out;    *)
(* the destructor, which only calls disconnect(), never runs with a        *)
(* joinable thread.                                                        *)
(***************************************************************************)
\* a step in which disconnect() returns
DisconnectReturns ==
    /\ disconnect \/ disconnect_stop \/ disconnect_join_send
    /\ pc' = "idle"

C13_DisconnectLeavesNoThread ==
    [][ DisconnectReturns =>
          /\ ~connected_'
          /\ ~authenticated_'
          /\ ~client_thread_'
          /\ ~send_thread_'
      ]_vars

(***************************************************************************)
(* C14: disconnect() clears the dispatch table: when it returns, no        *)
(* consumer registered before it remains.                                  *)
(***************************************************************************)
C14_DisconnectClearsTable ==
    [][ disconnect_join_send => callbacks_' = <<>> ]_vars
(***************************************************************************)
(* C15: a client has at most one reader and one writer thread: connect()   *)
(* on a connected client returns true without a new connection or new      *)
(* threads, and connect() never starts a thread pair while an earlier      *)
(* pair has not been joined.                                               *)
(***************************************************************************)
C15_OneThreadPair ==
    /\ [][ (connect /\ connected_) =>
              /\ pc' = "idle"
              /\ ret'.val
              /\ UNCHANGED << conn, running_, threadVars, reader, writer >>
        ]_vars
    /\ [][ (connect_start /\ running_' # running_) =>
              /\ ~client_thread_
              /\ ~send_thread_
        ]_vars

(***************************************************************************)
(* C18: after an explicit disconnect() the client stays Disconnected: a    *)
(* later connect() fails or is a no-op, it opens no connection and starts  *)
(* no threads.                                                             *)
(***************************************************************************)
\* the last call that returned is a disconnect() that closed the
\* connection and joined the threads
ExplicitlyDisconnected == ret.op = "disconnect" /\ ret.why = "joined"

C18_DisconnectIsTerminal ==
    [][ (connect /\ ExplicitlyDisconnected) =>
          /\ pc' = "idle"
          /\ UNCHANGED << conn, flagVars, threadVars >>
      ]_vars
(***************************************************************************)
(* C16: when the transport closes or fails, the client becomes             *)
(* Disconnected: once the handler (on_close / on_error) has returned,      *)
(* connected and authenticated are false and is_connected() is false; the  *)
(* reader takes no further payload from the dead connection and            *)
(* run_client exits; only a caller's connect() opens a connection again.   *)
(***************************************************************************)
TransportOver == conn \in {"closed", "failed"}

CloseCalls(log) == { i \in 1..Len(log) : log[i].kind = "close" }

\* the read outstanding on a connection that was open completes with an
\* error, and a close handler is installed
ReadFailsMidStream ==
    /\ async_read_fail
    /\ m_stream = "lost"
    /\ m_close_handler # "none"

C17_CloseHandlerOnceOnReadFailure ==
    [][ ReadFailsMidStream =>
          /\ Cardinality(CloseCalls(handler_calls')) =
                Cardinality(CloseCalls(handler_calls)) + 1
          /\ ~client_connected_'
          /\ m_read' = "none"
      ]_vars
(***************************************************************************)
(* C19: send_with_retry(message, retries) makes at most `retries`          *)
(* (MAX_RETRY_ATTEMPTS) write attempts, returns true at the first          *)
(* successful write and false when every attempt failed, waits             *)
(* 100 ms * 2^attempt after a failed attempt, and a send failure reaches   *)
(* the caller only after all attempts have been made.                      *)
(***************************************************************************)
\* a step in which send_with_retry, and with it send(), ends
SendEnds == send_pc # "idle" /\ send_pc' = "idle"

\* the delays slept so far double from 100 ms on
Doubling(delays) ==
    \A i \in 1..Len(delays) : delays[i] = 100 * 2 ^ (i - 1)

C19_FailureOnlyAfterAllAttempts ==
    /\ [][ SendEnds =>
              /\ writes' <= MAX_RETRY_ATTEMPTS
              /\ send_result'.kind = "returned"
              /\ send_result'.val <=> ws_written' # ws_written
              /\ ~send_result'.val => writes' = MAX_RETRY_ATTEMPTS
        ]_vars
    /\ [](Doubling(slept) /\ Len(slept) = attempt)

(***************************************************************************)
(* C20: reconnect() (close, then connect with the stored parameters)       *)
(* enqueues and writes nothing by itself: the frames written on the new    *)
(* connection are those callers pass to send(), the one being retried and  *)
(* later ones.                                                             *)
(***************************************************************************)
\* a step of send_with_retry in which reconnect() returned true
Reconnects ==
    /\ \E ok \in BOOLEAN : send_with_retry(ok)
    /\ ~ws_is_connected
    /\ ws_is_connected'

\* the messages passed to send() so far, in order: send() pushes each and
\* nothing pops
Sent == m_message_queue

C20_ReconnectWritesNothing ==
    /\ [][ Reconnects => UNCHANGED << ws_written, m_message_queue >> ]_vars
    /\ [][ ws_written' # ws_written =>
              /\ send_pc = "write"
              /\ ws_written' =
                    Append(ws_written,
                           [connection |-> ws_connection, msg |-> sending])
              /\ sending = Sent[Len(Sent)]
        ]_vars
    /\ [](Len(ws_written) <= Len(Sent))

\* SUBSCRIBE was written on the first connection; the connection dropped
\* during the send of PING, which reconnected and wrote PING alone on the
\* second connection
C20_OnlyRetriedFrameOnNewConnection ==
    /\ Sent = << "SUBSCRIBE", "PING" >>
    /\ ws_written = << [connection |-> 1, msg |-> "SUBSCRIBE"],
                       [connection |-> 2, msg |-> "PING"] >>
    /\ send_result = Result(TRUE)
    /\ send_pc = "idle"
    /\ m_params = GoodParams
(***************************************************************************)
(* C21: while the client is connected a ping frame is enqueued             *)
(* automatically by an internal timer: in every run in which the           *)
(* connection stays up, a ping frame is eventually enqueued, whether or    *)
(* not the caller calls ping().                                            *)
(***************************************************************************)
PingEnqueued == \E i \in 1..Len(pushed) : pushed[i] = PingFrame

C21_HeartbeatEnqueued == (<>[]connected_) => <>PingEnqueued

(***************************************************************************)
(* C28: a frame accepted by send_message is not lost: it is queued, held   *)
(* by the writer, or was written successfully; a write that fails is       *)
(* retried, not dropped.                                                   *)
(***************************************************************************)
WrittenOk == { i \in 1..Len(written) : written[i].ok }

C28_AcceptedFrameNotLost ==
    Len(pushed) =
       Cardinality(WrittenOk) + Len(InFlight) + Len(message_queue_)

(***************************************************************************)
(* C30: shutdown never leaves the writer blocked: whenever running_ is     *)
(* false, set by disconnect() or by run_client, a writer parked in the     *)
(* wait of process_message_queue is woken and its loop terminates.         *)
(***************************************************************************)
WriterStarted == writer # "off"

C30_ShutdownEndsWriter ==
    (~running_ /\ WriterStarted) ~> (writer = "done" \/ running_ \/ crashed)

\* C34: in the retrying WebSocketClient a frame leaves m_message_queue once
\* it was written or its attempts are used up: when no send() is running
\* the queue is empty
C34_QueueHoldsOnlyPending ==
    (send_pc = "idle" /\ send_result.kind = "returned")
        => m_message_queue = <<>>

\* C35: whenever authenticated_ is true the client is connected and an
\* authenticate() frame went out on the transport: an acknowledgment nobody
\* asked for does not make the client authenticated
C35_AuthenticatedOnlyWhenSolicited ==
    authenticated_ =>
        /\ connected_
        /\ \E i \in 1..Len(written) :
              /\ written[i].ok
              /\ contains(written[i].frame, "type")
              /\ written[i].frame.type = "auth"

\* C39: a frame for which a per-channel consumer is registered reaches
\* handle_message also when the catch-all consumer threw on it
C39_RoutingSurvivesCatchAllThrow ==
    [][ ( /\ on_message(rxMsg')
          /\ Parses(rxMsg')
          /\ ~(contains(rxMsg', "type") /\ rxMsg'.type = "auth")
          /\ general_callback_ \in Throwing
          /\ Dispatch(callbacks_, rxMsg') # <<>> )
        => reader' = "handle_message" ]_vars


(***************************************************************************)
(* Channel values that share a stream name: consumers registered and       *)
(* subscriptions made under DEPTH and DEPTH_SNAPSHOT, USER_ORDERS and      *)
(* ORDERS, POSITIONS and BALANCES, on a connected client without           *)
(* credentials                                                             *)
(***************************************************************************)
AliasChannels == { "DEPTH", "DEPTH_SNAPSHOT", "USER_ORDERS", "ORDERS" }
AliasSymbols == { SOL_USDC }
AliasConsumers == { "f", "g" }
\* the Channel values subscribe() takes without the authentication test
UngatedAccountChannels == { "ORDERS", "POSITIONS", "BALANCES" }

AliasNext ==
    \/ \E c \in AliasChannels, s \in AliasSymbols, f \in AliasConsumers :
          register_callback(c, s, f)
    \/ \E c \in UngatedAccountChannels : subscribe(c, <<>>)
    \/ subscribe("TICKER", SOL_USDC)
    \/ subscribe_send
    \/ send_message
    \/ process_message_queue
    \/ process_message_queue_wait
    \/ spurious_wakeup
    \/ process_message_queue_send

AliasSpec == DispatchInit /\ [][AliasNext]_vars

\* callbacks_.find(get_callback_key(channel, symbol)): the consumer a frame
\* of that channel and symbol is routed to
Lookup(table, channel, symbol) ==
    IF get_callback_key(channel, symbol) \in DOMAIN table
    THEN table[get_callback_key(channel, symbol)]
    ELSE NoCallback

\* C33: register_callback(c, s, f) changes the consumer of the pair (c, s)
\* only: the consumer looked up for any other (Channel, Symbol) pair is the
\* one it was before
C33_RegistrationTouchesOwnPairOnly ==
    [][ \A c \in AliasChannels, s \in AliasSymbols, f \in AliasConsumers :
          register_callback(c, s, f) =>
             \A c2 \in Channel, s2 \in AliasSymbols \cup {<<>>} :
                <<c2, s2>> # <<c, s>> =>
                   Lookup(callbacks_', c2, s2) = Lookup(callbacks_, c2, s2)
      ]_vars

\* the stream names of the account-scoped streams
AccountStreams ==
    { channel_to_string(c) : c \in AuthChannels }

\* C36: send_message enqueues no SUBSCRIBE frame that names an account
\* stream while the client is not authenticated
C36_NoAccountSubscribeUnauthenticated ==
    [][ ( /\ send_message
          /\ contains(call.frame, "method")
          /\ call.frame.method = "SUBSCRIBE"
          /\ call.frame.params[1] \in AccountStreams )
        => authenticated_ ]_vars


(***************************************************************************)
(* Typed subscriptions on a connection that may be lost                    *)
(***************************************************************************)
TypedLossNext ==
    \/ \E c \in TypedChannels : subscribe_to_channel(c, SOL_USDC)
    \/ subscribe_send
    \/ send_message
    \/ on_close
    \/ handler_auth_reset
    \/ run_client
    \/ process_message_queue
    \/ process_message_queue_wait
    \/ spurious_wakeup
    \/ process_message_queue_send

TypedLossSpec == TypedInit /\ [][TypedLossNext]_vars

\* C37: a typed subscription that returns false leaves callbacks_ as it was
\* when the call began
C37_FailedSubscribeLeavesTable ==
    [][ \A c \in TypedChannels :
          ( /\ subscribe_to_channel(c, SOL_USDC)
            /\ ret'.op = "subscribe"
            /\ pc' = "idle"
            /\ ~ret'.val )
          => callbacks_' = callbacks_ ]_vars


\* C32: every frame handed to client_.send is handed over by the writer
\* thread in its send step, no step of a calling thread does so, and a
\* writer thread is started only when no other writer thread exists
C32_SingleWriter ==
    /\ [][ written' # written =>
             /\ writer = "send"
             /\ process_message_queue_send
             /\ UNCHANGED << pc, call, ret, pushed >> ]_vars
    /\ [][ (pc # "idle" /\ (pc' # pc \/ pushed' # pushed))
              => written' = written ]_vars
    /\ [][ (send_thread_' /\ ~send_thread_) => writer \in {"off", "done"} ]_vars

\* a ping frame was pushed by ping() and handed to the open transport by the
\* writer thread
C32_PingWrittenByWriter ==
    /\ Len(pushed) >= 1
    /\ \E i \in 1..Len(written) :
          /\ written[i].frame = PingFrame
          /\ written[i].ok


(***************************************************************************)
(* Consumers that call back into the client from inside their invocation   *)
(***************************************************************************)
ReentrantConsumers == { "f", "again" }

ReentrantNext ==
    \/ \E c \in DispatchChannels, s \in DispatchSymbols,
          f \in ReentrantConsumers : register_callback(c, s, f)
    \/ \E f \in ReentrantConsumers : register_general_callback(f)
    \/ \E m \in DispatchInbound : on_message(m)
    \/ handle_message

ReentrantSpec == DispatchInit /\ [][ReentrantNext]_vars

\* C38: the reader thread is never stopped inside a consumer on mutex_ while
\* it owns mutex_ itself
C38_ReaderNeverBlockedOnMutex ==
    ~(reader = "blocked" /\ mutex_ = "reader")


(***************************************************************************)
(* A thread replacing the credentials while the calling thread             *)
(* authenticates: a connected client holding the pair (key, secret)        *)
(***************************************************************************)
OldCredentials == [api_key |-> "key", api_secret |-> "secret"]
NewCredentials == [api_key |-> "key2", api_secret |-> "secret2"]

CredInit ==
    /\ Connected
    /\ credentials_ = OldCredentials

CredNext ==
    \/ set_credentials_key(NewCredentials.api_key, NewCredentials.api_secret)
    \/ set_credentials_secret
    \/ authenticate
    \/ authenticate_creds
    \/ authenticate_wait
    \/ send_message
    \/ on_message(AuthOk)
    \/ process_message_queue
    \/ process_message_queue_wait
    \/ spurious_wakeup
    \/ process_message_queue_send

CredSpec == CredInit /\ [][CredNext]_vars

\* C31: every auth frame pushed was signed for the pair the client held
\* before set_credentials or for the pair it holds after it, never for the
\* key of one with the secret of the other
C31_AuthFrameFromOnePair ==
    \A i \in 1..Len(pushed) :
       (contains(pushed[i], "type") /\ pushed[i].type = "auth") =>
          \E c \in {OldCredentials, NewCredentials} :
             pushed[i] = generate_auth_payload(c.api_key, c.api_secret)


\* C40: a frame pushed before a disconnect() that closed the connection
\* returned is never handed to an open connection afterwards: the frame the
\* writer hands over is the next of the pushed ones in push order, and it
\* was pushed after that return
C40_NoFrameOutlivesDisconnect ==
    [][ (process_message_queue_send /\ conn = "open")
          => Len(written) + 1 > stale ]_vars

====
